---------------------------- MODULE Spec2Model ----------------------------
(***************************************************************************)
(* Multisig: a self-describing container for signatures (codec, message,   *)
(* attribute map), its canonical binary encoding, the AttrId registry and  *)
(* the BLS threshold-share engine (shares / add_share / combine).          *)
(*                                                                         *)
(* Bytes are the naturals 0..255, byte strings are sequences of them.      *)
(* A Result is a record: Ok has ok = TRUE and the value (val) and, for a   *)
(* decoder, the position of the first unread byte (pos); Err has           *)
(* ok = FALSE and the error (err) and nothing else.                        *)
(***************************************************************************)
EXTENDS Integers, Sequences, FiniteSets, TLC

VARIABLES
    pc,         \* position of the client: "build", "built", "encoded", "decoded"
    builder,    \* ms.rs Builder: codec, message, attributes, shares
    ms,         \* the Multisig returned by Builder::try_build
    buf,        \* the byte buffer handed to Multisig::try_decode_from
    src,        \* how buf was made: "none", "encoded", "truncated", "forged"
    rest,       \* the bytes the client appended after the encoded record
    forged,     \* the fields a forged buffer was laid out from
    dec,        \* the Result of Multisig::try_decode_from(buf)
    attrIn,     \* the input given to AttrId::try_from (a byte or a name)
    attrOut,    \* the Result of AttrId::try_from
    split,      \* the (t, n) split of the signing key, its group and scheme
    agg,        \* the aggregate Multisig the shares are folded into
    held,       \* the shares add_share accepted: [identifier, scheme]
    res,        \* the last call on the aggregate: [op, result, calls]
    accum,      \* the aggregate Multisig a holder of shares accumulates them in
    call,       \* the last call made on accum: [op, self, share, result]
    views,      \* the Results of the view getters, or of the accessors, for ms
    serde,      \* a serde round trip: [op, ms, ser, de]
    ssh         \* an SSH signature conversion: [op, ms, sig, back]

codecVars == <<pc, builder, ms, buf, src, rest, forged, dec>>

attrVars == <<attrIn, attrOut>>

thresholdVars == <<split, agg, held, res>>

engineVars == <<accum, call>>

formatVars == <<serde, ssh>>

vars == <<codecVars, attrVars, thresholdVars, engineVars, views, formatVars>>

-----------------------------------------------------------------------------
(* Bounds of the model *)

\* longest message the builder is given
MaxMsgLen == 1
\* most attributes the builder is given
MaxAttrs == 2
\* longest remainder appended after an encoded record
MaxRest == 1
\* most attribute entries laid out in a forged buffer
MaxEntries == 3
\* most bytes kept or dropped when an encoded record is cut short
MaxCut == 3
\* most participants of a split of the key
MaxLimit == 3
\* most participants whose shares a holder accumulates
MaxIds == 2

\* the most shares a builder is given
MaxShares == 3

-----------------------------------------------------------------------------
(* Results and options *)

Ok(v, p) == [ok |-> TRUE, val |-> v, pos |-> p]

Err(e) == [ok |-> FALSE, err |-> e]

None == <<>>

Some(x) == <<x>>

unwrap_or_default(o, d) == IF o = None THEN d ELSE o[1]

\* n bytes of zero
Zeros(n) == [i \in 1..n |-> 0]

\* the bytes of b from position p on
From(b, p) == SubSeq(b, p, Len(b))

-----------------------------------------------------------------------------
(* unsigned varint, as multiutil::Varuint / multitrait::EncodeInto use it *)

RECURSIVE Pow128(_)
Pow128(i) == IF i = 0 THEN 1 ELSE 128 * Pow128(i - 1)

\* Varuint(n).into(): 7 bits per byte, least significant group first, the
\* high bit set on every byte but the last
RECURSIVE Varuint_into(_)
Varuint_into(n) ==
    IF n < 128 THEN <<n>>
    ELSE <<(n % 128) + 128>> \o Varuint_into(n \div 128)

\* the scan of Varuint::try_decode_from from position p: byte i of at most
\* maxBytes; the input may end early, the last byte of a longer encoding may
\* not be zero (not minimal), and the value may not exceed maxVal
RECURSIVE VaruintScan(_, _, _, _, _, _)
VaruintScan(b, p, i, acc, maxBytes, maxVal) ==
    IF p + i > Len(b) THEN Err(<<"Multitrait", "insufficient">>)
    ELSE LET x == b[p + i] IN
         IF x < 128
         THEN IF x = 0 /\ i > 0 THEN Err(<<"Multitrait", "not-minimal">>)
              ELSE IF acc + x * Pow128(i) > maxVal
                   THEN Err(<<"Multitrait", "overflow">>)
                   ELSE Ok(acc + x * Pow128(i), p + i + 1)
         ELSE IF i + 1 >= maxBytes THEN Err(<<"Multitrait", "overflow">>)
              ELSE VaruintScan(b, p, i + 1, acc + (x - 128) * Pow128(i),
                               maxBytes, maxVal)

\* Varuint::<usize>::try_decode_from; the model's buffers never hold more
\* than four continuation bytes in a row, so the value stays below 2^31
Varuint_try_decode_from(b, p) == VaruintScan(b, p, 0, 0, 10, 2147483647)

\* u8::try_decode_from / Varuint::<u8>::try_decode_from
u8_try_decode_from(b, p) == VaruintScan(b, p, 0, 0, 2, 255)

\* Varbytes(v).into(): varint length, then the bytes
Varbytes_into(v) == Varuint_into(Len(v)) \o v

\* Varbytes::try_decode_from: the length, then that many bytes
Varbytes_try_decode_from(b, p) ==
    LET n == Varuint_try_decode_from(b, p) IN
    IF ~n.ok THEN n
    ELSE IF n.pos + n.val - 1 > Len(b) THEN Err(<<"Multiutil", "insufficient">>)
    ELSE Ok(SubSeq(b, n.pos, n.pos + n.val - 1), n.pos + n.val)

-----------------------------------------------------------------------------
(* multicodec::Codec: the registry codes this crate names *)

\* code of each codec; 0x39, 0x00, 0xd0ed, 0xd0e7, 0xd0ea and 0xd01304 are
\* the bytes the serde tests expect, the others are their neighbours
CodecCode ==
    [ Identity            |-> 0,
      Sha2256             |-> 18,
      Multisig            |-> 57,
      Es256KMsig          |-> 53479,
      Bls12381G1Msig      |-> 53482,
      Bls12381G2Msig      |-> 53483,
      EddsaMsig           |-> 53485,
      Bls12381G1ShareMsig |-> 13636356,
      Bls12381G2ShareMsig |-> 13636357 ]

Codecs == DOMAIN CodecCode

\* the multisig sigil
SIGIL == "Multisig"

\* Codec::into(): the varint of the code
Codec_into(c) == Varuint_into(CodecCode[c])

\* Codec::try_decode_from: a varint that must be a code of the registry
Codec_try_decode_from(b, p) ==
    LET n == Varuint_try_decode_from(b, p) IN
    IF ~n.ok THEN n
    ELSE IF \E c \in Codecs : CodecCode[c] = n.val
         THEN Ok(CHOOSE c \in Codecs : CodecCode[c] = n.val, n.pos)
         ELSE Err(<<"Multicodec", n.val>>)

-----------------------------------------------------------------------------
(* attrid.rs: the attribute identifiers *)

\* the variants of enum AttrId in declaration order; #[repr(u8)] numbers
\* them from 0 and derive(Ord) orders them the same way
AttrIdVariants ==
    <<"SigData", "PayloadEncoding", "Scheme", "Threshold", "Limit",
      "ShareIdentifier", "ThresholdData">>

AttrId == {AttrIdVariants[i] : i \in DOMAIN AttrIdVariants}

\* AttrId::code(): self as u8
AttrId_code(a) == (CHOOSE i \in DOMAIN AttrIdVariants : AttrIdVariants[i] = a) - 1

\* AttrId::as_str(); a name is the sequence of its characters
AttrId_as_str(a) ==
    CASE a = "SigData" -> <<"s", "i", "g", "-", "d", "a", "t", "a">>
      [] a = "PayloadEncoding" -> <<"p", "a", "y", "l", "o", "a", "d", "-", "e", "n", "c", "o", "d", "i", "n", "g">>
      [] a = "Scheme" -> <<"s", "c", "h", "e", "m", "e">>
      [] a = "Threshold" -> <<"t", "h", "r", "e", "s", "h", "o", "l", "d">>
      [] a = "Limit" -> <<"l", "i", "m", "i", "t">>
      [] a = "ShareIdentifier" -> <<"s", "h", "a", "r", "e", "-", "i", "d", "e", "n", "t", "i", "f", "i", "e", "r">>
      [] a = "ThresholdData" -> <<"t", "h", "r", "e", "s", "h", "o", "l", "d", "-", "d", "a", "t", "a">>

\* impl TryFrom<u8> for AttrId
AttrId_try_from_u8(c) ==
    CASE c = 0 -> Ok("SigData", 0)
      [] c = 1 -> Ok("PayloadEncoding", 0)
      [] c = 2 -> Ok("Scheme", 0)
      [] c = 3 -> Ok("Threshold", 0)
      [] c = 4 -> Ok("Limit", 0)
      [] c = 5 -> Ok("ShareIdentifier", 0)
      [] c = 6 -> Ok("ThresholdData", 0)
      [] OTHER -> Err(<<"InvalidAttributeValue", c>>)

\* the ASCII upper-case letters and their lower-case forms
AsciiUpper ==
    [ A |-> "a",
      B |-> "b",
      C |-> "c",
      D |-> "d",
      E |-> "e",
      F |-> "f",
      G |-> "g",
      H |-> "h",
      I |-> "i",
      J |-> "j",
      K |-> "k",
      L |-> "l",
      M |-> "m",
      N |-> "n",
      O |-> "o",
      P |-> "p",
      Q |-> "q",
      R |-> "r",
      S |-> "s",
      T |-> "t",
      U |-> "u",
      V |-> "v",
      W |-> "w",
      X |-> "x",
      Y |-> "y",
      Z |-> "z" ]

\* str::to_ascii_lowercase: upper-case ASCII letters are replaced, every
\* other character is kept
to_ascii_lowercase(s) ==
    [i \in 1..Len(s) |->
        IF s[i] \in DOMAIN AsciiUpper THEN AsciiUpper[s[i]] ELSE s[i]]

\* a TryFrom<&str> that matches the name as given
AttrId_try_from_str_exact(s) ==
    IF \E a \in AttrId : AttrId_as_str(a) = s
    THEN Ok(CHOOSE a \in AttrId : AttrId_as_str(a) = s, 0)
    ELSE Err(<<"InvalidAttributeName", s>>)

\* impl TryFrom<&str> for AttrId: the match is on the lower-cased name, the
\* error carries the name as given
AttrId_try_from_str(s) ==
    LET l == to_ascii_lowercase(s) IN
    CASE l = <<"s", "i", "g", "-", "d", "a", "t", "a">> -> Ok("SigData", 0)
      [] l = <<"p", "a", "y", "l", "o", "a", "d", "-", "e", "n", "c", "o", "d", "i", "n", "g">> -> Ok("PayloadEncoding", 0)
      [] l = <<"s", "c", "h", "e", "m", "e">> -> Ok("Scheme", 0)
      [] l = <<"t", "h", "r", "e", "s", "h", "o", "l", "d">> -> Ok("Threshold", 0)
      [] l = <<"l", "i", "m", "i", "t">> -> Ok("Limit", 0)
      [] l = <<"s", "h", "a", "r", "e", "-", "i", "d", "e", "n", "t", "i", "f", "i", "e", "r">> -> Ok("ShareIdentifier", 0)
      [] l = <<"t", "h", "r", "e", "s", "h", "o", "l", "d", "-", "d", "a", "t", "a">> -> Ok("ThresholdData", 0)
      [] OTHER -> Err(<<"InvalidAttributeName", s>>)

\* impl Into<Vec<u8>> for AttrId: self.code().encode_into()
AttrId_into(a) == Varuint_into(AttrId_code(a))

\* AttrId::try_decode_from: a u8 varint, then TryFrom<u8>
AttrId_try_decode_from(b, p) ==
    LET c == u8_try_decode_from(b, p) IN
    IF ~c.ok THEN c
    ELSE LET a == AttrId_try_from_u8(c.val) IN
         IF ~a.ok THEN a ELSE Ok(a.val, c.pos)

-----------------------------------------------------------------------------
(* std BTreeMap, as a sequence of <<key, value>> kept in ascending key order *)

\* derive(Ord) on AttrId: the rank of each variant in the order of the map
AttrIdOrd == [a \in AttrId |-> AttrId_code(a)]

\* the order of the u8 share identifiers
u8Ord == [i \in 0..255 |-> i]

BTreeMap_contains_key(m, k) == \E i \in DOMAIN m : m[i][1] = k

\* BTreeMap::get as an Option
BTreeMap_get(m, k) ==
    IF BTreeMap_contains_key(m, k)
    THEN Some(m[CHOOSE i \in DOMAIN m : m[i][1] = k][2])
    ELSE None

\* a map that keeps its entries in the order they were first inserted
BTreeMap_insert_unordered(m, k, v, ord) ==
    IF BTreeMap_contains_key(m, k)
    THEN [i \in DOMAIN m |-> IF m[i][1] = k THEN <<k, v>> ELSE m[i]]
    ELSE Append(m, <<k, v>>)

\* BTreeMap::insert: the value of a key already present is replaced, a new
\* key goes after the keys below it
BTreeMap_insert(m, k, v, ord) ==
    IF BTreeMap_contains_key(m, k)
    THEN [i \in DOMAIN m |-> IF m[i][1] = k THEN <<k, v>> ELSE m[i]]
    ELSE LET below == Cardinality({i \in DOMAIN m : ord[m[i][1]] < ord[k]}) IN
         SubSeq(m, 1, below) \o <<<<k, v>>>> \o SubSeq(m, below + 1, Len(m))

\* the keys of a map in iteration order
BTreeMap_keys(m) == [i \in DOMAIN m |-> m[i][1]]

-----------------------------------------------------------------------------
(* ms.rs: the Multisig value and its binary encoding *)

\* struct Multisig
Multisig(codec, message, attributes) ==
    [codec |-> codec, message |-> message, attributes |-> attributes]

\* Multisig::null(): Multisig::default()
Multisig_null == Multisig("Identity", <<>>, <<>>)

\* the attribute entries written by the for_each of Into<Vec<u8>>: for each
\* entry in iteration order the id, then the value as Varbytes
RECURSIVE AttributesInto(_, _)
AttributesInto(attrs, i) ==
    IF i > Len(attrs) THEN <<>>
    ELSE AttrId_into(attrs[i][1]) \o Varbytes_into(attrs[i][2])
         \o AttributesInto(attrs, i + 1)

\* an encoder that writes nothing for an empty message
Multisig_into_skip_empty(m) ==
    Codec_into(SIGIL)
    \o Codec_into(m.codec)
    \o (IF m.message = <<>> THEN <<>> ELSE Varbytes_into(m.message))
    \o Varuint_into(Len(m.attributes))
    \o AttributesInto(m.attributes, 1)

\* an encoder that writes the message before the codec
Multisig_into_message_first(m) ==
    Codec_into(SIGIL)
    \o Varbytes_into(m.message)
    \o Codec_into(m.codec)
    \o Varuint_into(Len(m.attributes))
    \o AttributesInto(m.attributes, 1)

\* impl Into<Vec<u8>> for Multisig
Multisig_into(m) ==
    Codec_into(SIGIL)
    \o Codec_into(m.codec)
    \o Varbytes_into(m.message)
    \o Varuint_into(Len(m.attributes))
    \o AttributesInto(m.attributes, 1)

\* an attribute loop in which the last entry of an id wins
RECURSIVE DecodeAttributes_last_wins(_, _, _, _)
DecodeAttributes_last_wins(b, p, n, attributes) ==
    IF n = 0 THEN Ok(attributes, p)
    ELSE LET id == AttrId_try_decode_from(b, p) IN
         IF ~id.ok THEN id
         ELSE LET attr == Varbytes_try_decode_from(b, id.pos) IN
              IF ~attr.ok THEN attr
              ELSE DecodeAttributes_last_wins(b, attr.pos, n - 1,
                       BTreeMap_insert(attributes, id.val, attr.val, AttrIdOrd))

\* an attribute loop that returns the pointer of its last entry, not the one
\* past it
RECURSIVE DecodeAttributes_stale_ptr(_, _, _, _)
DecodeAttributes_stale_ptr(b, p, n, attributes) ==
    IF n = 0 THEN Ok(attributes, p)
    ELSE LET id == AttrId_try_decode_from(b, p) IN
         IF ~id.ok THEN id
         ELSE LET attr == Varbytes_try_decode_from(b, id.pos) IN
              IF ~attr.ok THEN attr
              ELSE IF BTreeMap_contains_key(attributes, id.val)
                   THEN Err(<<"DuplicateAttribute", AttrId_code(id.val)>>)
                   ELSE IF n = 1
                        THEN Ok(BTreeMap_insert(attributes, id.val, attr.val,
                                                AttrIdOrd), p)
                        ELSE DecodeAttributes_stale_ptr(b, attr.pos, n - 1,
                                 BTreeMap_insert(attributes, id.val, attr.val,
                                                 AttrIdOrd))

\* the attribute loop of try_decode_from: n more entries from position p
RECURSIVE DecodeAttributes(_, _, _, _)
DecodeAttributes(b, p, n, attributes) ==
    IF n = 0 THEN Ok(attributes, p)
    ELSE LET id == AttrId_try_decode_from(b, p) IN
         IF ~id.ok THEN id
         ELSE LET attr == Varbytes_try_decode_from(b, id.pos) IN
              IF ~attr.ok THEN attr
              ELSE IF BTreeMap_contains_key(attributes, id.val)
                   THEN Err(<<"DuplicateAttribute", AttrId_code(id.val)>>)
                   ELSE DecodeAttributes(b, attr.pos, n - 1,
                            BTreeMap_insert(attributes, id.val, attr.val,
                                            AttrIdOrd))

\* a decoder that reads the sigil and does not compare it
Multisig_try_decode_any_sigil(b, p) ==
    LET sigil == Codec_try_decode_from(b, p) IN
    IF ~sigil.ok THEN sigil
    ELSE LET codec == Codec_try_decode_from(b, sigil.pos) IN
         IF ~codec.ok THEN codec
         ELSE LET message == Varbytes_try_decode_from(b, codec.pos) IN
              IF ~message.ok THEN message
              ELSE LET num_attr == Varuint_try_decode_from(b, message.pos) IN
                   IF ~num_attr.ok THEN num_attr
                   ELSE LET attributes ==
                                DecodeAttributes(b, num_attr.pos, num_attr.val, <<>>)
                        IN IF ~attributes.ok THEN attributes
                           ELSE Ok(Multisig(codec.val, message.val, attributes.val),
                                   attributes.pos)

\* Multisig::try_decode_from, reading from position p; Ok carries the
\* Multisig and the position of the unconsumed remainder
Multisig_try_decode_from(b, p) ==
    LET sigil == Codec_try_decode_from(b, p) IN
    IF ~sigil.ok THEN sigil
    ELSE IF sigil.val # SIGIL THEN Err(<<"MissingSigil">>)
    ELSE LET codec == Codec_try_decode_from(b, sigil.pos) IN
         IF ~codec.ok THEN codec
         ELSE LET message == Varbytes_try_decode_from(b, codec.pos) IN
              IF ~message.ok THEN message
              ELSE LET num_attr == Varuint_try_decode_from(b, message.pos) IN
                   IF ~num_attr.ok THEN num_attr
                   ELSE LET attributes ==
                                DecodeAttributes(b, num_attr.pos, num_attr.val, <<>>)
                        IN IF ~attributes.ok THEN attributes
                           ELSE Ok(Multisig(codec.val, message.val, attributes.val),
                                   attributes.pos)

-----------------------------------------------------------------------------
(* ms.rs: view dispatch (impl Views for Multisig) *)

BlsCodecs ==
    {"Bls12381G1Msig", "Bls12381G2Msig", "Bls12381G1ShareMsig", "Bls12381G2ShareMsig"}

BlsShareCodecs == {"Bls12381G1ShareMsig", "Bls12381G2ShareMsig"}

\* Views::attr_view
attr_view(m) ==
    IF m.codec \in BlsCodecs \cup {"EddsaMsig", "Es256KMsig"}
    THEN Ok(m, 0)
    ELSE Err(<<"UnsupportedCodec", m.codec>>)

\* Views::data_view (sig_data_view in sig_views/bls12381.rs)
data_view(m) ==
    IF m.codec \in BlsCodecs \cup {"EddsaMsig", "Es256KMsig"}
    THEN Ok(m, 0)
    ELSE Err(<<"UnsupportedCodec", m.codec>>)

\* Views::conv_view
conv_view(m) ==
    IF m.codec \in BlsCodecs \cup {"EddsaMsig", "Es256KMsig"}
    THEN Ok(m, 0)
    ELSE Err(<<"UnsupportedCodec", m.codec>>)

\* Views::threshold_attr_view
threshold_attr_view(m) ==
    IF m.codec \in BlsCodecs THEN Ok(m, 0)
    ELSE Err(<<"UnsupportedCodec", m.codec>>)

\* a threshold_view granted to every BLS codec
threshold_view_any_bls(m) ==
    IF m.codec \in BlsCodecs THEN Ok(m, 0)
    ELSE Err(<<"UnsupportedCodec", m.codec>>)

\* Views::threshold_view
threshold_view(m) ==
    IF m.codec \in {"Bls12381G1Msig", "Bls12381G2Msig"} THEN Ok(m, 0)
    ELSE Err(<<"UnsupportedCodec", m.codec>>)

-----------------------------------------------------------------------------
(* sig_views/bls12381.rs: the attribute accessors of the BLS view.  The     *)
(* view names the combined codecs Bls12381G1Sig / Bls12381G2Sig and the     *)
(* share codecs Bls12381G1SigShare / Bls12381G2SigShare; ms.rs names the    *)
(* same codecs Bls12381G1Msig / Bls12381G2Msig / Bls12381G1ShareMsig /      *)
(* Bls12381G2ShareMsig.                                                     *)

\* AttrView::payload_encoding
payload_encoding(m) ==
    LET v == BTreeMap_get(m.attributes, "PayloadEncoding") IN
    IF v = None THEN Err(<<"MissingPayloadEncoding">>)
    ELSE LET c == Codec_try_decode_from(v[1], 1) IN
         IF ~c.ok THEN c ELSE Ok(c.val, 0)

\* SigDataView::sig_bytes
sig_bytes(m) ==
    LET v == BTreeMap_get(m.attributes, "SigData") IN
    IF v = None THEN Err(<<"MissingSignature">>) ELSE Ok(v[1], 0)

\* ThresholdAttrView::threshold
threshold(m) ==
    LET v == BTreeMap_get(m.attributes, "Threshold") IN
    IF v = None THEN Err(<<"MissingThreshold">>)
    ELSE LET n == Varuint_try_decode_from(v[1], 1) IN
         IF ~n.ok THEN n ELSE Ok(n.val, 0)

\* ThresholdAttrView::limit
limit(m) ==
    LET v == BTreeMap_get(m.attributes, "Limit") IN
    IF v = None THEN Err(<<"MissingLimit">>)
    ELSE LET n == Varuint_try_decode_from(v[1], 1) IN
         IF ~n.ok THEN n ELSE Ok(n.val, 0)

\* an identifier() that reads the attribute whatever the codec is
identifier_any_codec(m) ==
    LET v == BTreeMap_get(m.attributes, "ShareIdentifier") IN
    IF v = None THEN Err(<<"MissingIdentifier">>)
    ELSE LET n == u8_try_decode_from(v[1], 1) IN
         IF ~n.ok THEN n ELSE Ok(n.val, 0)

\* ThresholdAttrView::identifier
identifier(m) ==
    IF m.codec \in BlsShareCodecs
    THEN LET v == BTreeMap_get(m.attributes, "ShareIdentifier") IN
         IF v = None THEN Err(<<"MissingIdentifier">>)
         ELSE LET n == u8_try_decode_from(v[1], 1) IN
              IF ~n.ok THEN n ELSE Ok(n.val, 0)
    ELSE Err(<<"NotASignatureShare">>)

\* ThresholdAttrView::threshold_data
threshold_data(m) ==
    LET v == BTreeMap_get(m.attributes, "ThresholdData") IN
    IF v = None THEN Err(<<"MissingThresholdData">>) ELSE Ok(v[1], 0)

-----------------------------------------------------------------------------
(* sig_views/bls12381.rs: SchemeTypeId, SigShare, ThresholdData *)

SchemeTypeIdVariants == <<"Basic", "MessageAugmentation", "ProofOfPossession">>

SchemeTypeId == {SchemeTypeIdVariants[i] : i \in DOMAIN SchemeTypeIdVariants}

\* SchemeTypeId::code(): self as u8
SchemeTypeId_code(t) ==
    (CHOOSE i \in DOMAIN SchemeTypeIdVariants : SchemeTypeIdVariants[i] = t) - 1

\* impl TryFrom<u8> for SchemeTypeId
SchemeTypeId_try_from_u8(c) ==
    CASE c = 0 -> Ok("Basic", 0)
      [] c = 1 -> Ok("MessageAugmentation", 0)
      [] c = 2 -> Ok("ProofOfPossession", 0)
      [] OTHER -> Err(<<"InvalidSchemeTypeId", c>>)

\* impl Into<Vec<u8>> for SchemeTypeId
SchemeTypeId_into(t) == Varuint_into(SchemeTypeId_code(t))

\* SchemeTypeId::try_decode_from
SchemeTypeId_try_decode_from(b, p) ==
    LET c == u8_try_decode_from(b, p) IN
    IF ~c.ok THEN c
    ELSE LET t == SchemeTypeId_try_from_u8(c.val) IN
         IF ~t.ok THEN t ELSE Ok(t.val, c.pos)

\* struct SigShare(identifier, threshold, limit, scheme, share bytes)
SigShare(id, t, l, scheme, bytes) ==
    [identifier |-> id, threshold |-> t, limit |-> l, scheme |-> scheme,
     bytes |-> bytes]

\* impl Into<Vec<u8>> for SigShare
SigShare_into(s) ==
    Varuint_into(s.identifier)
    \o Varuint_into(s.threshold)
    \o Varuint_into(s.limit)
    \o SchemeTypeId_into(s.scheme)
    \o Varbytes_into(s.bytes)

\* SigShare::try_decode_from
SigShare_try_decode_from(b, p) ==
    LET id == u8_try_decode_from(b, p) IN
    IF ~id.ok THEN id
    ELSE LET t == Varuint_try_decode_from(b, id.pos) IN
    IF ~t.ok THEN t
    ELSE LET l == Varuint_try_decode_from(b, t.pos) IN
    IF ~l.ok THEN l
    ELSE LET share_type == SchemeTypeId_try_decode_from(b, l.pos) IN
    IF ~share_type.ok THEN share_type
    ELSE LET share_data == Varbytes_try_decode_from(b, share_type.pos) IN
    IF ~share_data.ok THEN share_data
    ELSE Ok(SigShare(id.val, t.val, l.val, share_type.val, share_data.val),
            share_data.pos)

\* the shares written by the for_each of ThresholdData's Into<Vec<u8>>
RECURSIVE SharesInto(_, _)
SharesInto(shares, i) ==
    IF i > Len(shares) THEN <<>>
    ELSE SigShare_into(shares[i][2]) \o SharesInto(shares, i + 1)

\* impl Into<Vec<u8>> for ThresholdData (a BTreeMap<u8, SigShare>)
ThresholdData_into(td) == Varuint_into(Len(td)) \o SharesInto(td, 1)

\* the share loop of ThresholdData::try_decode_from: a share whose
\* identifier was read before replaces the earlier one
RECURSIVE DecodeShares(_, _, _, _)
DecodeShares(b, p, n, shares) ==
    IF n = 0 THEN Ok(shares, p)
    ELSE LET share == SigShare_try_decode_from(b, p) IN
         IF ~share.ok THEN share
         ELSE DecodeShares(b, share.pos, n - 1,
                  BTreeMap_insert(shares, share.val.identifier, share.val, u8Ord))

\* ThresholdData::try_decode_from
ThresholdData_try_decode_from(b, p) ==
    LET num_shares == Varuint_try_decode_from(b, p) IN
    IF ~num_shares.ok THEN num_shares
    ELSE DecodeShares(b, num_shares.pos, num_shares.val, <<>>)

\* the threshold data shares(), add_share() and combine() start from:
\*   match av.threshold_data() {
\*       Ok(b) => ThresholdData::try_from(b).unwrap_or_default(),
\*       Err(_) => ThresholdData::default() }
current_threshold_data(m) ==
    LET b == threshold_data(m) IN
    IF ~b.ok THEN <<>>
    ELSE LET td == ThresholdData_try_decode_from(b.val, 1) IN
         IF td.ok THEN td.val ELSE <<>>

-----------------------------------------------------------------------------
(* blsful: the external threshold primitive, as exact Shamir reconstruction *)
(* over a small prime field.  A group element is written as GroupLen bytes: *)
(* the field value, then zeros.                                             *)

\* order of the field the shares are interpolated in
FieldOrder == 7

\* length of a compressed G1 point
G1Len == 48

\* length of a compressed G2 point
G2Len == 96

GroupLen(group) == IF group = "G1" THEN G1Len ELSE G2Len

PointBytes(group, v) == <<v>> \o Zeros(GroupLen(group) - 1)

IsPoint(group, b) ==
    /\ Len(b) = GroupLen(group)
    /\ b[1] < FieldOrder
    /\ \A i \in 2..Len(b) : b[i] = 0

FieldInv(a) == CHOOSE b \in 1..(FieldOrder - 1) : (a * b) % FieldOrder = 1

\* the Lagrange basis polynomial of share i at zero: the product over the
\* other shares j of x_j / (x_j - x_i)
RECURSIVE LagrangeBasis(_, _, _)
LagrangeBasis(shares, i, j) ==
    IF j > Len(shares) THEN 1
    ELSE IF j = i THEN LagrangeBasis(shares, i, j + 1)
    ELSE LET xi == shares[i].identifier
             xj == shares[j].identifier
         IN (xj * FieldInv((xj - xi) % FieldOrder)
                * LagrangeBasis(shares, i, j + 1)) % FieldOrder

RECURSIVE Interpolate(_, _)
Interpolate(shares, i) ==
    IF i > Len(shares) THEN 0
    ELSE (shares[i].value[1] * LagrangeBasis(shares, i, 1)
            + Interpolate(shares, i + 1)) % FieldOrder

\* Signature::from_shares on shares [scheme, identifier, value] of a group:
\* at least two shares, no zero identifier, two shares never the same point
\* of the polynomial, every value an element of the group; the signature
\* takes the scheme of the first share
from_shares(group, shares) ==
    IF Len(shares) < 2 THEN Err(<<"ShareCombineFailed", "min-threshold">>)
    ELSE IF \E i \in DOMAIN shares : shares[i].identifier % FieldOrder = 0
         THEN Err(<<"ShareCombineFailed", "invalid-identifier">>)
    ELSE IF \E i, j \in DOMAIN shares :
                /\ i # j
                /\ shares[i].identifier % FieldOrder = shares[j].identifier % FieldOrder
         THEN Err(<<"ShareCombineFailed", "duplicate-identifier">>)
    ELSE IF \E i \in DOMAIN shares : ~IsPoint(group, shares[i].value)
         THEN Err(<<"ShareCombineFailed", "invalid-share">>)
    ELSE IF \E i \in DOMAIN shares : shares[i].scheme # shares[1].scheme
         THEN Err(<<"ShareCombineFailed", "invalid-scheme">>)
    ELSE Ok([scheme |-> shares[1].scheme,
             point |-> PointBytes(group, Interpolate(shares, 1))], 0)

-----------------------------------------------------------------------------
(* ms.rs: Builder.  base_encoding only selects the text form made by        *)
(* try_build_encoded and is left out.                                       *)

\* Builder::new
Builder_new(codec) ==
    [codec |-> codec, message |-> None, attributes |-> None, shares |-> None]

\* Builder::with_message_bytes
with_message_bytes(b, msg) == [b EXCEPT !.message = Some(msg)]

\* a with_attribute that keeps the attributes in the order they were given
with_attribute_push(b, attr, data) ==
    [b EXCEPT !.attributes =
        Some(IF BTreeMap_contains_key(unwrap_or_default(b.attributes, <<>>), attr)
             THEN [i \in DOMAIN b.attributes[1] |->
                      IF b.attributes[1][i][1] = attr THEN <<attr, data>>
                      ELSE b.attributes[1][i]]
             ELSE Append(unwrap_or_default(b.attributes, <<>>), <<attr, data>>))]

\* Builder::with_attribute
with_attribute(b, attr, data) ==
    [b EXCEPT !.attributes =
        Some(BTreeMap_insert(unwrap_or_default(b.attributes, <<>>), attr, data,
                             AttrIdOrd))]

\* Builder::with_payload_encoding
with_payload_encoding(b, codec) ==
    with_attribute(b, "PayloadEncoding", Codec_into(codec))

\* Builder::with_signature_bytes
with_signature_bytes(b, data) == with_attribute(b, "SigData", data)

\* Builder::with_threshold
with_threshold(b, t) == with_attribute(b, "Threshold", Varuint_into(t))

\* Builder::with_limit
with_limit(b, l) == with_attribute(b, "Limit", Varuint_into(l))

\* Builder::with_identifier
with_identifier(b, id) == with_attribute(b, "ShareIdentifier", Varuint_into(id))

\* Builder::with_threshold_data
with_threshold_data(b, tdata) == with_attribute(b, "ThresholdData", tdata)

\* Builder::add_signature_share
add_signature_share(b, share) ==
    [b EXCEPT !.shares = Some(Append(unwrap_or_default(b.shares, <<>>), share))]

\* Builder::new_from_bls_signature on a signature [scheme, point]
new_from_bls_signature(sig) ==
    IF Len(sig.point) \notin {G1Len, G2Len}
    THEN Err(<<"UnsupportedAlgorithm", "invalid Bls signature size">>)
    ELSE Ok([codec |-> IF Len(sig.point) = G1Len THEN "Bls12381G1Msig"
                       ELSE "Bls12381G2Msig",
             message |-> None,
             attributes |->
                Some(BTreeMap_insert(
                        BTreeMap_insert(<<>>, "SigData", sig.point, AttrIdOrd),
                        "Scheme", SchemeTypeId_into(sig.scheme), AttrIdOrd)),
             shares |-> None], 0)

\* Builder::new_from_bls_signature_share on a share [scheme, identifier, value]
new_from_bls_signature_share(t, l, sigshare) ==
    IF Len(sigshare.value) \notin {G1Len, G2Len}
    THEN Err(<<"UnsupportedAlgorithm", "invalid Bls signature size">>)
    ELSE LET b0 == Builder_new(IF Len(sigshare.value) = G1Len
                               THEN "Bls12381G1ShareMsig"
                               ELSE "Bls12381G2ShareMsig")
             b1 == with_attribute(b0, "SigData", sigshare.value)
             b2 == with_attribute(b1, "Threshold", Varuint_into(t))
             b3 == with_attribute(b2, "Limit", Varuint_into(l))
             b4 == with_attribute(b3, "ShareIdentifier",
                                  Varuint_into(sigshare.identifier))
             b5 == with_attribute(b4, "Scheme", SchemeTypeId_into(sigshare.scheme))
         IN Ok(b5, 0)

\* Builder::try_build of a builder no share was added to (the else branch):
\* the codec, the message or an empty one, the attributes or none
build(b) ==
    Ok(Multisig(b.codec,
                unwrap_or_default(b.message, <<>>),
                unwrap_or_default(b.attributes, <<>>)), 0)

-----------------------------------------------------------------------------
(* sig_views/bls12381.rs: impl ThresholdView for View.  The builders made   *)
(* here never hold shares, so their try_build() is build.                  *)

\* a share Multisig that leaves the message of the aggregate behind
share_multisig_detached(m, codec, share, encoding) ==
    build(
        with_threshold_data(
            with_payload_encoding(
                with_signature_bytes(
                    with_limit(
                        with_threshold(
                            with_identifier(Builder_new(codec), share.identifier),
                            share.threshold),
                        share.limit),
                    share.bytes),
                encoding),
            SchemeTypeId_into(share.scheme)))

\* the Multisig shares() builds out of one accumulated share
share_multisig(m, codec, share, encoding) ==
    build(
        with_threshold_data(
            with_payload_encoding(
                with_signature_bytes(
                    with_limit(
                        with_threshold(
                            with_identifier(
                                with_message_bytes(Builder_new(codec), m.message),
                                share.identifier),
                            share.threshold),
                        share.limit),
                    share.bytes),
                encoding),
            SchemeTypeId_into(share.scheme)))

\* a shares() that gives every share the threshold and the limit of the
\* aggregate
RECURSIVE SharesEach_of_aggregate(_, _, _, _, _)
SharesEach_of_aggregate(m, codec, td, i, shares) ==
    IF i > Len(td) THEN Ok(shares, 0)
    ELSE LET encoding == payload_encoding(m) IN
         IF ~encoding.ok THEN encoding
         ELSE SharesEach_of_aggregate(m, codec, td, i + 1,
                  Append(shares,
                         share_multisig(m, codec,
                             [td[i][2] EXCEPT !.threshold = threshold(m).val,
                                              !.limit = limit(m).val],
                             encoding.val).val))

\* the try_for_each of shares() over the accumulated shares
RECURSIVE SharesEach(_, _, _, _, _)
SharesEach(m, codec, td, i, shares) ==
    IF i > Len(td) THEN Ok(shares, 0)
    ELSE LET av == attr_view(m) IN
         IF ~av.ok THEN av
         ELSE LET encoding == payload_encoding(m) IN
              IF ~encoding.ok THEN encoding
              ELSE LET share == share_multisig(m, codec, td[i][2], encoding.val) IN
                   IF ~share.ok THEN share
                   ELSE SharesEach(m, codec, td, i + 1, Append(shares, share.val))

\* ThresholdView::shares
shares(m) ==
    IF m.codec \in BlsShareCodecs THEN Err(<<"IsASignatureShare">>)
    ELSE IF m.codec \notin {"Bls12381G1Msig", "Bls12381G2Msig"}
         THEN Err(<<"UnsupportedAlgorithm", m.codec>>)
    ELSE LET codec == IF m.codec = "Bls12381G1Msig" THEN "Bls12381G1ShareMsig"
                      ELSE "Bls12381G2ShareMsig"
             av == threshold_attr_view(m)
         IN IF ~av.ok THEN av
            ELSE SharesEach(m, codec, current_threshold_data(m), 1, <<>>)

\* Result::unwrap_or
unwrap_or(r, d) == IF r.ok THEN r.val ELSE d

\* an add_share that sets its attributes on top of those of this multisig
add_share_build_over(m, share, t, l, encoding0, tdata, encoding) ==
    build(with_threshold_data(
              with_limit(
                  with_threshold(
                      [with_message_bytes(Builder_new(m.codec), m.message)
                          EXCEPT !.attributes = Some(m.attributes)],
                      unwrap_or(threshold(share), t)),
                  unwrap_or(limit(share), l)),
              tdata))

\* the end of add_share(): the payload encoding is the one of this multisig,
\* else the one read before (encoding0); the threshold and the limit are
\*   let av = share.threshold_attr_view()?;
\*   av.threshold().unwrap_or(threshold), av.limit().unwrap_or(limit)
\* and the new aggregate is built from the codec and the message of this one
add_share_build(m, share, t, l, encoding0, tdata, encoding) ==
    IF (IF encoding.ok THEN encoding ELSE encoding0).ok
    THEN build(with_payload_encoding(
                   with_threshold_data(
                       with_limit(
                           with_threshold(
                               with_message_bytes(Builder_new(m.codec), m.message),
                               unwrap_or(threshold(share), t)),
                           unwrap_or(limit(share), l)),
                       tdata),
                   (IF encoding.ok THEN encoding ELSE encoding0).val))
    ELSE build(with_threshold_data(
                   with_limit(
                       with_threshold(
                           with_message_bytes(Builder_new(m.codec), m.message),
                           unwrap_or(threshold(share), t)),
                       unwrap_or(limit(share), l)),
                   tdata))

\* an add_share that keeps the share an identifier already has
add_share_sig_first_wins(m, share, t, l, id, scheme_type, sig) ==
    IF ~sig.ok THEN sig
    ELSE add_share_build(m, share, t, l, payload_encoding(m),
             ThresholdData_into(
                 IF BTreeMap_contains_key(current_threshold_data(m), id)
                 THEN current_threshold_data(m)
                 ELSE BTreeMap_insert(current_threshold_data(m), id,
                                      SigShare(id, t, l, scheme_type, sig.val),
                                      u8Ord)),
             payload_encoding(m))

\* add_share() once the signature bytes of the share are read: the share is
\* inserted into the threshold data of this multisig under its identifier
add_share_sig(m, share, t, l, id, scheme_type, sig) ==
    IF ~sig.ok THEN sig
    ELSE IF ~attr_view(m).ok THEN attr_view(m)
    ELSE IF ~threshold_attr_view(m).ok THEN threshold_attr_view(m)
    ELSE IF ~threshold_attr_view(share).ok THEN threshold_attr_view(share)
    ELSE add_share_build(m, share, t, l,
             \* let encoding = self.ms.attr_view()?.payload_encoding().ok()
             payload_encoding(m),
             ThresholdData_into(
                 BTreeMap_insert(current_threshold_data(m), id,
                                 SigShare(id, t, l, scheme_type, sig.val), u8Ord)),
             payload_encoding(m))

\* add_share() once the scheme type is read from the share's ThresholdData
add_share_scheme(m, share, t, l, id, scheme_type) ==
    IF ~scheme_type.ok THEN scheme_type
    ELSE IF ~data_view(share).ok THEN data_view(share)
    ELSE add_share_sig(m, share, t, l, id, scheme_type.val, sig_bytes(share))

\* add_share() once the attributes of the share are read
add_share_read(m, share, t, l, id, sd) ==
    IF ~t.ok THEN t
    ELSE IF ~l.ok THEN l
    ELSE IF ~id.ok THEN id
    ELSE IF ~sd.ok THEN sd
    ELSE add_share_scheme(m, share, t.val, l.val, id.val,
                          SchemeTypeId_try_decode_from(sd.val, 1))

\* an add_share that does not look at the codec of the aggregate
add_share_any_codec(m, share) ==
    IF ~threshold_attr_view(share).ok THEN threshold_attr_view(share)
    ELSE add_share_read(m, share, threshold(share), limit(share),
                        identifier(share), threshold_data(share))

\* ThresholdView::add_share
add_share(m, share) ==
    IF m.codec \in BlsShareCodecs THEN Err(<<"IsASignatureShare">>)
    ELSE IF m.codec \notin {"Bls12381G1Msig", "Bls12381G2Msig"}
         THEN Err(<<"UnsupportedAlgorithm", m.codec>>)
    ELSE IF ~threshold_attr_view(share).ok THEN threshold_attr_view(share)
    ELSE add_share_read(m, share, threshold(share), limit(share),
                        identifier(share), threshold_data(share))

\* a conversion that does not compare the schemes of the shares
RECURSIVE ConvertShares_unchecked(_, _, _)
ConvertShares_unchecked(td, i, converted) ==
    IF i > Len(td) THEN Ok(converted, 0)
    ELSE ConvertShares_unchecked(td, i + 1,
             Append(converted, [scheme |-> td[i][2].scheme,
                                identifier |-> td[i][1],
                                value |-> td[i][2].bytes]))

\* the try_for_each of combine(): the accumulated shares in identifier order
\* become shares of the primitive; every share must have the scheme of the
\* first one
RECURSIVE ConvertShares(_, _, _)
ConvertShares(td, i, converted) ==
    IF i > Len(td) THEN Ok(converted, 0)
    ELSE IF i > 1 /\ td[1][2].scheme # td[i][2].scheme
         THEN Err(<<"ShareTypeMismatch">>)
    ELSE ConvertShares(td, i + 1,
             Append(converted, [scheme |-> td[i][2].scheme,
                             identifier |-> td[i][1],
                             value |-> td[i][2].bytes]))

\* a result of combine() reached without calling Signature::from_shares
NoCall(r) == [result |-> r, calls |-> <<>>]

\* the end of combine(): the signature becomes a Multisig of the combined
\* codec with the message of this one and its payload encoding
combine_wrap(m, encoding, b0) ==
    IF m.codec = "Bls12381G1Msig"
    THEN \* G1: av.payload_encoding()? comes before the builder
         IF ~encoding.ok THEN encoding
         ELSE IF ~b0.ok THEN b0
         ELSE build(with_payload_encoding(with_message_bytes(b0.val, m.message),
                                          encoding.val))
    ELSE \* G2: av.payload_encoding().ok()
         IF ~b0.ok THEN b0
         ELSE IF encoding.ok
              THEN build(with_payload_encoding(
                             with_message_bytes(b0.val, m.message), encoding.val))
              ELSE build(with_message_bytes(b0.val, m.message))

\* combine() once Signature::from_shares(converted) has returned sig
combine_signed(m, converted, sig) ==
    [result |-> IF ~sig.ok THEN sig
                ELSE combine_wrap(m, payload_encoding(m),
                                  new_from_bls_signature(sig.val)),
     calls |-> <<converted>>]

\* combine() once the shares are converted: the call of the primitive
combine_converted(m, converted) ==
    IF ~converted.ok THEN NoCall(converted)
    ELSE combine_signed(m, converted.val,
             from_shares(IF m.codec = "Bls12381G1Msig" THEN "G1" ELSE "G2",
                         converted.val))

\* combine() once the threshold data td and the threshold t are read
combine_counted(m, td, t) ==
    IF ~t.ok THEN NoCall(t)
    ELSE IF Len(td) < t.val THEN NoCall(Err(<<"NotEnoughShares">>))
    ELSE IF m.codec \notin {"Bls12381G1Msig", "Bls12381G2Msig"}
         THEN NoCall(Err(<<"UnsupportedAlgorithm", m.codec>>))
    ELSE combine_converted(m, ConvertShares(td, 1, <<>>))

\* ThresholdView::combine, with the calls it makes to Signature::from_shares:
\* [result, calls]
combine_calls(m) ==
    IF ~threshold_attr_view(m).ok THEN NoCall(threshold_attr_view(m))
    ELSE combine_counted(m, current_threshold_data(m), threshold(m))

\* ThresholdView::combine
combine(m) == combine_calls(m).result

-----------------------------------------------------------------------------
(* ms.rs: Builder::try_build *)

\* a loop that leaves out the shares add_share refuses
RECURSIVE FoldShares_lenient(_, _, _)
FoldShares_lenient(m, added, i) ==
    IF i > Len(added) THEN Ok(m, 0)
    ELSE LET tv == threshold_view(m) IN
         IF ~tv.ok THEN tv
         ELSE FoldShares_lenient(unwrap_or(add_share(m, added[i]), m), added, i + 1)

\* the for loop of try_build: ms = ms.threshold_view()?.add_share(share)?
RECURSIVE FoldShares(_, _, _)
FoldShares(m, added, i) ==
    IF i > Len(added) THEN Ok(m, 0)
    ELSE LET tv == threshold_view(m) IN
         IF ~tv.ok THEN tv
         ELSE LET r == add_share(m, added[i]) IN
              IF ~r.ok THEN r ELSE FoldShares(r.val, added, i + 1)

\* Builder::try_build
try_build(b) ==
    IF b.shares # None THEN FoldShares(build(b).val, b.shares[1], 1)
    ELSE build(b)

-----------------------------------------------------------------------------
(* The signer of ms.rs tests::test_bls_signature_combine: a secret key, its *)
(* (t, n) split and the signatures made with the key and with its shares.   *)
(* A key is a field element; a signature is the key times a factor that     *)
(* depends on the scheme (the hash of the fixed message to the group).      *)

HashFactor(scheme) == SchemeTypeId_code(scheme) + 1

\* the value at x of the polynomial with coefficients poly (poly[1] the key)
RECURSIVE PolyEval(_, _, _)
PolyEval(poly, x, i) ==
    IF i > Len(poly) THEN 0
    ELSE (poly[i] + x * PolyEval(poly, x, i + 1)) % FieldOrder

\* sk.sign(scheme, msg): the signature [scheme, point] of the un-split key
sign(group, poly, scheme) ==
    [scheme |-> scheme,
     point |-> PointBytes(group, (poly[1] * HashFactor(scheme)) % FieldOrder)]

\* sk.split(t, n)[id].sign(scheme, msg): the signature share of participant id
sign_share(group, poly, scheme, id) ==
    [scheme |-> scheme,
     identifier |-> id,
     value |-> PointBytes(group,
                  (PolyEval(poly, id, 1) * HashFactor(scheme)) % FieldOrder)]

-----------------------------------------------------------------------------
(* The inputs of the clients *)

\* the sequences over S of length at most n
RECURSIVE SeqsUpTo(_, _)
SeqsUpTo(S, n) ==
    IF n = 0 THEN {<<>>}
    ELSE SeqsUpTo(S, n - 1)
         \cup {Append(s, x) : s \in {q \in SeqsUpTo(S, n - 1) : Len(q) = n - 1}, x \in S}

\* messages given to with_message_bytes
Messages == SeqsUpTo({1}, MaxMsgLen)

\* values given to with_attribute: empty, one byte, the 64 zero bytes of the
\* tests' signatures, and a value whose length needs a two-byte varint
AttrValues(attr) ==
    CASE attr = "SigData" -> {<<1>>, Zeros(64)}
      [] attr = "ThresholdData" -> {<<>>, Zeros(130)}
      [] OTHER -> {<<>>, <<1>>}

\* remainders a client appends after an encoded record
Remainders == SeqsUpTo({0, 57}, MaxRest)

\* the lengths an encoded record b is cut to: a few bytes kept, or a few
\* bytes dropped
CutPoints(b) ==
    {k \in 0..(Len(b) - 1) : k <= MaxCut \/ Len(b) - k <= MaxCut}

\* first bytes of a forged buffer: the sigil, two other codes of the registry
\* (identity, eddsa-msig), a code that is not in the registry
ForgedLeads == {<<57>>, <<0>>, <<237, 161, 3>>, <<127>>}

\* attribute id bytes of a forged entry: three ids and a byte that is none
ForgedIds == {0, 1, 6, 7}

ForgedEntries == SeqsUpTo(ForgedIds \X {<<>>, <<1>>}, MaxEntries)

\* a forged buffer: lead, the identity codec, an empty message, a count and
\* the entries, each an id byte and a value as Varbytes
RECURSIVE EntriesBytes(_, _)
EntriesBytes(entries, i) ==
    IF i > Len(entries) THEN <<>>
    ELSE <<entries[i][1]>> \o Varbytes_into(entries[i][2])
         \o EntriesBytes(entries, i + 1)

ForgedBytes(f) ==
    f.lead \o <<0>> \o <<0>> \o Varuint_into(f.count) \o EntriesBytes(f.entries, 1)

NoForgery == [lead |-> <<>>, count |-> 0, entries |-> <<>>]

\* names given to AttrId::try_from(&str)
ToUpperAscii(s) ==
    [i \in 1..Len(s) |->
        IF \E u \in DOMAIN AsciiUpper : AsciiUpper[u] = s[i]
        THEN CHOOSE u \in DOMAIN AsciiUpper : AsciiUpper[u] = s[i]
        ELSE s[i]]

Capitalized(s) == IF s = <<>> THEN s ELSE <<ToUpperAscii(s)[1]>> \o Tail(s)

CanonicalNames == {AttrId_as_str(a) : a \in AttrId}

NameInputs ==
    CanonicalNames
    \cup {ToUpperAscii(n) : n \in CanonicalNames}
    \cup {Capitalized(n) : n \in CanonicalNames}
    \cup {Tail(n) : n \in CanonicalNames}
    \cup {Append(n, "s") : n \in CanonicalNames}
    \cup {<<>>, <<"s", "i", "g", "_", "d", "a", "t", "a">>, <<"S", "i", "g", "D", "a", "t", "a">>}

\* the coefficients of the dealer's polynomial over the field: the secret
\* key, then one coefficient per degree
Coefficients == <<3, 5, 2, 4, 1, 6>>

\* sk.split(t, n): a polynomial of degree t - 1
Poly(t) == SubSeq(Coefficients, 1, t)

\* the splits sk.split(t, n) accepts: 2 <= t <= n
Splits == {tn \in (2..MaxLimit) \X (2..MaxLimit) : tn[1] <= tn[2]}

CombinedCodec(group) == IF group = "G1" THEN "Bls12381G1Msig" ELSE "Bls12381G2Msig"

ShareCodec(group) ==
    IF group = "G1" THEN "Bls12381G1ShareMsig" ELSE "Bls12381G2ShareMsig"

NoSplit == [group |-> "none"]

\* a scheme other than the one the key was split for
OtherScheme(scheme) ==
    CASE scheme = "Basic" -> "MessageAugmentation"
      [] scheme = "MessageAugmentation" -> "ProofOfPossession"
      [] OTHER -> "Basic"

\* the Multisig of the share of participant id, signed under scheme, with
\* the scheme under ThresholdData, where add_share reads it and shares()
\* writes it
engine_share(s, id, scheme) ==
    build(with_threshold_data(
              with_identifier(
                  with_limit(
                      with_threshold(
                          with_signature_bytes(
                              Builder_new(ShareCodec(s.group)),
                              sign_share(s.group, Poly(s.t), scheme, id).value),
                          s.t),
                      s.n),
                  id),
              SchemeTypeId_into(scheme))).val

\* the Multisig of the share of participant id as the test makes it:
\* Builder::new_from_bls_signature_share(t, n, &sig).try_build()
builder_share(s, id, scheme) ==
    build(new_from_bls_signature_share(
              s.t, s.n, sign_share(s.group, Poly(s.t), scheme, id)).val).val

share_of(s, id, scheme, form) ==
    IF form = "engine" THEN engine_share(s, id, scheme)
    ELSE builder_share(s, id, scheme)

\* the Multisig of the signature made with the un-split key:
\* Builder::new_from_bls_signature(&sig).try_build()
direct_multisig(s) ==
    build(new_from_bls_signature(sign(s.group, Poly(s.t), s.scheme)).val).val

-----------------------------------------------------------------------------
(* The codec client: build a Multisig, encode it, decode what was encoded   *)
(* (whole, followed by other bytes, or cut short), or decode a forged       *)
(* buffer.                                                                  *)

Init ==
    /\ pc = "build"
    /\ builder = Builder_new("Identity")
    /\ ms = Multisig_null
    /\ buf = <<>>
    /\ src = "none"
    /\ rest = <<>>
    /\ forged = NoForgery
    /\ dec = Err(<<"none">>)
    /\ attrIn = [kind |-> "none"]
    /\ attrOut = Err(<<"none">>)
    /\ split = NoSplit
    /\ agg = Multisig_null
    /\ held = {}
    /\ res = [op |-> "none"]
    /\ accum = Multisig_null
    /\ call = [op |-> "none"]
    /\ views = [op |-> "none"]
    /\ serde = [op |-> "none"]
    /\ ssh = [op |-> "none"]

\* Builder::new(codec)
New(codec) ==
    /\ pc = "build"
    /\ builder' = Builder_new(codec)
    /\ UNCHANGED <<pc, ms, buf, src, rest, forged, dec, attrVars, thresholdVars, engineVars, views, formatVars>>

\* Builder::with_message_bytes(msg)
WithMessageBytes(msg) ==
    /\ pc = "build"
    /\ builder' = with_message_bytes(builder, msg)
    /\ UNCHANGED <<pc, ms, buf, src, rest, forged, dec, attrVars, thresholdVars, engineVars, views, formatVars>>

\* Builder::with_attribute(attr, data), behind with_signature_bytes,
\* with_threshold, with_limit, with_identifier, with_threshold_data,
\* with_payload_encoding and with_scheme
WithAttribute(attr, data) ==
    /\ pc = "build"
    /\ Len(with_attribute(builder, attr, data).attributes[1]) <= MaxAttrs
    /\ builder' = with_attribute(builder, attr, data)
    /\ UNCHANGED <<pc, ms, buf, src, rest, forged, dec, attrVars, thresholdVars, engineVars, views, formatVars>>

\* Builder::try_build()
TryBuild ==
    /\ pc = "build"
    /\ try_build(builder).ok
    /\ ms' = try_build(builder).val
    /\ pc' = "built"
    /\ UNCHANGED <<builder, buf, src, rest, forged, dec, attrVars, thresholdVars, engineVars, views, formatVars>>

\* let v: Vec<u8> = ms.into(), followed in the stream by r
Encode(r) ==
    /\ pc = "built"
    /\ buf' = Multisig_into(ms) \o r
    /\ rest' = r
    /\ src' = "encoded"
    /\ pc' = "encoded"
    /\ UNCHANGED <<builder, ms, forged, dec, attrVars, thresholdVars, engineVars, views, formatVars>>

\* the encoded record loses its tail: only the first k bytes arrive
Truncate(k) ==
    /\ pc = "encoded"
    /\ src = "encoded"
    /\ rest = <<>>
    /\ buf' = SubSeq(buf, 1, k)
    /\ src' = "truncated"
    /\ UNCHANGED <<pc, builder, ms, rest, forged, dec, attrVars, thresholdVars, engineVars, views, formatVars>>

\* a buffer that no encoder wrote
Forge(f) ==
    /\ pc = "build"
    /\ builder = Builder_new("Identity")
    /\ forged' = f
    /\ buf' = ForgedBytes(f)
    /\ src' = "forged"
    /\ pc' = "encoded"
    /\ UNCHANGED <<builder, ms, rest, dec, attrVars, thresholdVars, engineVars, views, formatVars>>

\* Multisig::try_decode_from(buf)
Decode ==
    /\ pc = "encoded"
    /\ dec' = Multisig_try_decode_from(buf, 1)
    /\ pc' = "decoded"
    /\ UNCHANGED <<builder, ms, buf, src, rest, forged, attrVars, thresholdVars, engineVars, views, formatVars>>

Next ==
    \/ pc = "build" /\ \E codec \in Codecs : New(codec)
    \/ pc = "build" /\ \E msg \in Messages : WithMessageBytes(msg)
    \/ pc = "build" /\ \E attr \in AttrId : \E data \in AttrValues(attr) :
                            WithAttribute(attr, data)
    \/ TryBuild
    \/ pc = "built" /\ \E r \in Remainders : Encode(r)
    \/ pc = "encoded" /\ src = "encoded" /\ \E k \in CutPoints(buf) : Truncate(k)
    \/ pc = "build" /\ builder = Builder_new("Identity")
         /\ \E lead \in ForgedLeads : \E count \in 0..MaxEntries :
              \E entries \in ForgedEntries :
                 Forge([lead |-> lead, count |-> count, entries |-> entries])
    \/ Decode

Spec == Init /\ [][Next]_vars

-----------------------------------------------------------------------------
(* The AttrId client: a variant to its code and name, a byte or a name to   *)
(* a variant.                                                               *)

\* a.code() and a.as_str()
CodeAndName(a) ==
    /\ attrIn' = [kind |-> "variant", variant |-> a]
    /\ attrOut' = [code |-> AttrId_code(a), name |-> AttrId_as_str(a)]
    /\ UNCHANGED <<codecVars, thresholdVars, engineVars, views, formatVars>>

\* AttrId::try_from(c)
TryFromU8(c) ==
    /\ attrIn' = [kind |-> "u8", code |-> c]
    /\ attrOut' = AttrId_try_from_u8(c)
    /\ UNCHANGED <<codecVars, thresholdVars, engineVars, views, formatVars>>

\* AttrId::try_from(s)
TryFromStr(s) ==
    /\ attrIn' = [kind |-> "str", name |-> s]
    /\ attrOut' = AttrId_try_from_str(s)
    /\ UNCHANGED <<codecVars, thresholdVars, engineVars, views, formatVars>>

NextAttrId ==
    \/ \E a \in AttrId : CodeAndName(a)
    \/ \E c \in 0..255 : TryFromU8(c)
    \/ \E s \in NameInputs : TryFromStr(s)

SpecAttrId == Init /\ [][NextAttrId]_vars

-----------------------------------------------------------------------------
(* The threshold client: a key is split, a fresh aggregate of the combined *)
(* codec is made, the participants' shares are folded into it with          *)
(* add_share, and combine() is called on it.                                *)

\* sk.split(t, n) and the new aggregate: Builder::new(codec).try_build(),
\* or one that carries a payload encoding; no share is added to the
\* builder, so its try_build() is build
Deal(group, scheme, t, n, encoding) ==
    /\ split = NoSplit
    /\ split' = [group |-> group, scheme |-> scheme, t |-> t, n |-> n,
                 encoding |-> encoding]
    /\ agg' = IF encoding
              THEN build(with_payload_encoding(
                                 Builder_new(CombinedCodec(group)), "Identity")).val
              ELSE build(Builder_new(CombinedCodec(group))).val
    /\ held' = {}
    /\ res' = [op |-> "none"]
    /\ UNCHANGED <<codecVars, attrVars, engineVars, views, formatVars>>

\* ms = ms.threshold_view()?.add_share(share)?, the share that of
\* participant id signed under scheme
AddShare(id, scheme, form) ==
    /\ split # NoSplit
    /\ res' = [op |-> "add_share",
               result |-> add_share(agg, share_of(split, id, scheme, form)),
               calls |-> <<>>]
    /\ agg' = IF res'.result.ok THEN res'.result.val ELSE agg
    /\ held' = IF res'.result.ok
               THEN {h \in held : h.identifier # id}
                    \cup {[identifier |-> id, scheme |-> scheme]}
               ELSE held
    /\ UNCHANGED <<split, codecVars, attrVars, engineVars, views, formatVars>>

\* ms.threshold_view()?.combine()
Combine ==
    /\ split # NoSplit
    /\ res' = [op |-> "combine",
               result |-> combine(agg),
               calls |-> combine_calls(agg).calls]
    /\ UNCHANGED <<split, agg, held, codecVars, attrVars, engineVars, views, formatVars>>

NextThreshold ==
    \/ split = NoSplit
         /\ \E group \in {"G1", "G2"} : \E scheme \in SchemeTypeId :
              \E tn \in Splits : \E encoding \in BOOLEAN :
                 Deal(group, scheme, tn[1], tn[2], encoding)
    \/ split # NoSplit
         /\ \E id \in 1..split.n :
              \E scheme \in {split.scheme, OtherScheme(split.scheme)} :
              \E form \in {"engine", "builder"} : AddShare(id, scheme, form)
    \/ Combine

SpecThreshold == Init /\ [][NextThreshold]_vars


-----------------------------------------------------------------------------
(* The engine client: a holder of shares makes an aggregate, folds shares   *)
(* of several kinds into it with add_share, lists them with shares() and    *)
(* combines them; two holders of the same aggregate each add a share.       *)
(* The calls are made on the View of the aggregate (View::try_from never    *)
(* fails), so that add_share sees an aggregate of any codec.  A call is      *)
(* made on an aggregate the holder has just made or got from add_share; a   *)
(* call that returns no aggregate leaves the holder with the one it had, on *)
(* which every call was already open.                                       *)

\* the group of a BLS codec
GroupOf(codec) ==
    IF codec \in {"Bls12381G1Msig", "Bls12381G1ShareMsig"} THEN "G1" ELSE "G2"

OtherGroup(group) == IF group = "G1" THEN "G2" ELSE "G1"

\* the split whose shares the holder collects
PlainSplit(group) ==
    [group |-> group, scheme |-> "Basic", t |-> MaxIds, n |-> MaxIds + 1]

\* another split of the same key, with a larger threshold and limit
RaisedSplit(group) ==
    [group |-> group, scheme |-> "Basic", t |-> MaxIds + 1, n |-> MaxIds + 2]

\* a split of the same key among fewer participants
NarrowSplit(group) ==
    [group |-> group, scheme |-> "Basic", t |-> MaxIds, n |-> MaxIds]

\* a share Multisig that carries a payload encoding, as shares() makes them
encoded_share(s, id) ==
    share_multisig(Multisig_null, ShareCodec(s.group),
                   SigShare(id, s.t, s.n, s.scheme,
                            sign_share(s.group, Poly(s.t), s.scheme, id).value),
                   "Sha2256").val

ShareKinds ==
    {"plain", "raised", "narrow", "encoded", "foreign", "combined", "aggregate"}

\* the Multisig handed to add_share of the aggregate m: the share of
\* participant id (plain), that of a split with other parameters (raised,
\* narrow),
\* one with a payload encoding (encoded), one of the other curve group
\* (foreign), a combined signature (combined) or the aggregate itself
share_kind(m, kind, id) ==
    CASE kind = "plain" -> engine_share(PlainSplit(GroupOf(m.codec)), id, "Basic")
      [] kind = "raised" -> engine_share(RaisedSplit(GroupOf(m.codec)), id, "Basic")
      [] kind = "narrow" -> engine_share(NarrowSplit(GroupOf(m.codec)), id, "Basic")
      [] kind = "encoded" -> encoded_share(PlainSplit(GroupOf(m.codec)), id)
      [] kind = "foreign" ->
             engine_share(PlainSplit(OtherGroup(GroupOf(m.codec))), id, "Basic")
      [] kind = "combined" -> direct_multisig(PlainSplit(GroupOf(m.codec)))
      [] OTHER -> m

\* the kinds and participants of the shares handed to add_share; the
\* encoded and the foreign share are those of the first participant
GivenShares ==
    {[kind |-> k, id |-> i] : k \in {"plain", "raised"}, i \in 1..MaxIds}
      \cup {[kind |-> k, id |-> 1] :
               k \in {"encoded", "foreign", "combined", "aggregate"}}

\* the shares two holders of one aggregate add to it
WriterShares == {g \in GivenShares : g.kind \in {"plain", "raised"}}

\* the codecs of the aggregates the holder makes
AggregateCodecs ==
    {"Bls12381G1Msig", "Bls12381G2Msig", "Bls12381G1ShareMsig", "EddsaMsig"}

\* a detached aggregate without payload encoding, or one that carries the
\* message and its encoding
AggregateForms ==
    {[message |-> <<>>, encoding |-> FALSE], [message |-> <<1>>, encoding |-> TRUE]}

\* the holder has just made the aggregate or got it from add_share
Settled == call.op = "new" \/ (call.op = "add_share" /\ call.result.ok)

\* Builder::new(codec).with_message_bytes(..).with_payload_encoding(..)
\* .try_build(): no share is added to the builder, so try_build() is build
NewAggregate(codec, form) ==
    /\ call.op = "none"
    /\ accum' = IF form.encoding
              THEN build(with_payload_encoding(
                             with_message_bytes(Builder_new(codec), form.message),
                             "Identity")).val
              ELSE build(with_message_bytes(Builder_new(codec), form.message)).val
    /\ call' = [op |-> "new"]
    /\ UNCHANGED <<codecVars, attrVars, thresholdVars, views, formatVars>>

\* accum = View::try_from(&accum)?.add_share(&share)?, the aggregate kept when
\* add_share fails
FoldShare(given) ==
    /\ Settled
    /\ call' = [op |-> "add_share", self |-> accum, kind |-> given.kind,
                share |-> share_kind(accum, given.kind, given.id),
                result |-> add_share(accum, share_kind(accum, given.kind, given.id))]
    /\ accum' = IF call'.result.ok THEN call'.result.val ELSE accum
    /\ UNCHANGED <<codecVars, attrVars, thresholdVars, views, formatVars>>

\* two holders of an aggregate that add_share changes in place: the second
\* call is made on what the first left
TwoWriters_in_place(g1, g2) ==
    /\ Settled
    /\ threshold_view(accum).ok
    /\ g1 # g2
    /\ call' = [op |-> "fork", self |-> accum,
                first |-> [share |-> share_kind(accum, g1.kind, g1.id),
                           result |-> add_share(accum, share_kind(accum, g1.kind, g1.id))],
                second |-> [share |-> share_kind(accum, g2.kind, g2.id),
                            result |-> add_share(
                                unwrap_or(add_share(accum,
                                              share_kind(accum, g1.kind, g1.id)), accum),
                                share_kind(accum, g2.kind, g2.id))]]
    /\ accum' = unwrap_or(call'.second.result, accum)
    /\ UNCHANGED <<codecVars, attrVars, thresholdVars, views, formatVars>>

\* two holders of the aggregate each call add_share(&share) on it; accum is
\* borrowed immutably by both
TwoWriters(g1, g2) ==
    /\ Settled
    /\ threshold_view(accum).ok
    /\ g1 # g2
    /\ call' = [op |-> "fork", self |-> accum,
                first |-> [share |-> share_kind(accum, g1.kind, g1.id),
                           result |-> add_share(accum, share_kind(accum, g1.kind, g1.id))],
                second |-> [share |-> share_kind(accum, g2.kind, g2.id),
                            result |-> add_share(accum, share_kind(accum, g2.kind, g2.id))]]
    /\ UNCHANGED <<accum, codecVars, attrVars, thresholdVars, views, formatVars>>

\* View::try_from(&accum)?.shares()
ListShares ==
    /\ Settled \/ call.op = "combine"
    /\ call' = [op |-> "shares", self |-> accum, result |-> shares(accum),
                after |-> call.op]
    /\ UNCHANGED <<accum, codecVars, attrVars, thresholdVars, views, formatVars>>

\* a combine() that uses the accumulated shares up
CombineShares_clearing ==
    /\ Settled \/ call.op = "combine"
    /\ call' = [op |-> "combine", self |-> accum, result |-> combine(accum)]
    /\ accum' = IF combine(accum).ok
                THEN build(with_message_bytes(Builder_new(accum.codec),
                                              accum.message)).val
                ELSE accum
    /\ UNCHANGED <<codecVars, attrVars, thresholdVars, views, formatVars>>

\* View::try_from(&accum)?.combine()
CombineShares ==
    /\ Settled \/ call.op = "combine"
    /\ call' = [op |-> "combine", self |-> accum, result |-> combine(accum)]
    /\ UNCHANGED <<accum, codecVars, attrVars, thresholdVars, views, formatVars>>

NextEngine ==
    \/ call.op = "none"
         /\ \E codec \in AggregateCodecs : \E form \in AggregateForms :
               NewAggregate(codec, form)
    \/ Settled /\ \E given \in GivenShares : FoldShare(given)
    \/ Settled /\ threshold_view(accum).ok
         /\ \E g1 \in WriterShares : \E g2 \in WriterShares : TwoWriters(g1, g2)
    \/ ListShares
    \/ CombineShares

SpecEngine == Init /\ [][NextEngine]_vars

-----------------------------------------------------------------------------
(* The same holder, with an aggregate that was not made by Builder::new and *)
(* add_share alone: one whose ThresholdData attribute does not decode, and  *)
(* one that carries the attributes of a signature.                          *)

\* bytes that are no ThresholdData: a count of one share and no share
Undecodable == <<1>>

ReceivedKinds == {"damaged", "unsorted", "signed", "detached"}

\* the share of participant id of the split s, as ThresholdData holds it
held_share(s, id) ==
    SigShare(id, s.t, s.n, s.scheme, sign_share(s.group, Poly(s.t), s.scheme, id).value)

\* an aggregate with a message, a payload encoding, a threshold, a limit and
\* a ThresholdData that does not decode (damaged) or one that lists the
\* share of the second participant before that of the first (unsorted), or
\* with a message and the SigData, Scheme and ShareIdentifier of a
\* signature, with a payload encoding (signed) or without one (detached)
received(codec, kind) ==
    CASE kind = "damaged" ->
            build(with_threshold_data(
                      with_limit(
                          with_threshold(
                              with_payload_encoding(
                                  with_message_bytes(Builder_new(codec), <<1>>),
                                  "Identity"),
                              MaxIds),
                          MaxIds + 1),
                      Undecodable)).val
      [] kind = "unsorted" ->
            build(with_threshold_data(
                      with_limit(
                          with_threshold(
                              with_payload_encoding(
                                  with_message_bytes(Builder_new(codec), <<1>>),
                                  "Identity"),
                              MaxIds),
                          MaxIds + 1),
                      Varuint_into(2)
                         \o SigShare_into(held_share(PlainSplit(GroupOf(codec)), 2))
                         \o SigShare_into(held_share(PlainSplit(GroupOf(codec)), 1)))).val
      [] kind = "signed" ->
            build(with_attribute(
                      with_identifier(
                          with_signature_bytes(
                              with_payload_encoding(
                                  with_message_bytes(Builder_new(codec), <<1>>),
                                  "Identity"),
                              PointBytes(GroupOf(codec), 1)),
                          MaxIds),
                      "Scheme", SchemeTypeId_into("Basic"))).val
      [] OTHER ->
            build(with_attribute(
                      with_identifier(
                          with_signature_bytes(
                              with_message_bytes(Builder_new(codec), <<1>>),
                              PointBytes(GroupOf(codec), 1)),
                          MaxIds),
                      "Scheme", SchemeTypeId_into("Basic"))).val

\* the holder starts from an aggregate built with with_attribute, or decoded
\* from bytes it was sent
ReceiveAggregate(codec, kind) ==
    /\ call.op = "none"
    /\ accum' = received(codec, kind)
    /\ call' = [op |-> "new"]
    /\ UNCHANGED <<codecVars, attrVars, thresholdVars, views, formatVars>>

NextReceived ==
    \/ call.op = "none"
         /\ \E codec \in AggregateCodecs : \E kind \in ReceivedKinds :
               ReceiveAggregate(codec, kind)
    \/ Settled /\ \E given \in GivenShares : FoldShare(given)
    \/ ListShares
    \/ CombineShares

SpecReceived == Init /\ [][NextReceived]_vars

-----------------------------------------------------------------------------
(* The view client: a Multisig of any codec of the registry is asked for    *)
(* each of its views.                                                       *)

\* the Multisigs asked for their views: any codec, with or without a
\* message, with at most one attribute
ViewedMultisigs ==
    {Multisig(c, msg, <<>>) : c \in Codecs, msg \in Messages}
      \cup UNION {{Multisig(c, msg, <<<<a, d>>>>) :
                     c \in Codecs, msg \in Messages, d \in AttrValues(a)} :
                  a \in AttrId}

\* m.attr_view(), m.data_view(), m.conv_view(), m.threshold_attr_view() and
\* m.threshold_view()
Dispatch(m) ==
    /\ ms' = m
    /\ views' = [op |-> "views",
                 attr_view |-> attr_view(m),
                 data_view |-> data_view(m),
                 conv_view |-> conv_view(m),
                 threshold_attr_view |-> threshold_attr_view(m),
                 threshold_view |-> threshold_view(m)]
    /\ UNCHANGED <<pc, builder, buf, src, rest, forged, dec, attrVars,
                   thresholdVars, engineVars, formatVars>>

\* the accessors of the BLS View of m (View::try_from(&m) never fails):
\* payload_encoding(), sig_bytes(), threshold(), limit(), identifier() and
\* threshold_data()
ReadAttributes(m) ==
    /\ ms' = m
    /\ views' = [op |-> "attributes",
                 payload_encoding |-> payload_encoding(m),
                 sig_bytes |-> sig_bytes(m),
                 threshold |-> threshold(m),
                 limit |-> limit(m),
                 identifier |-> identifier(m),
                 threshold_data |-> threshold_data(m)]
    /\ UNCHANGED <<pc, builder, buf, src, rest, forged, dec, attrVars,
                   thresholdVars, engineVars, formatVars>>

NextViews ==
    \/ \E m \in ViewedMultisigs : Dispatch(m)
    \/ \E m \in ViewedMultisigs : ReadAttributes(m)

SpecViews == Init /\ [][NextViews]_vars
-----------------------------------------------------------------------------
(* serde/ser.rs, serde/de.rs: Serialize and Deserialize for Multisig.       *)
(* A value handed to a Serializer is kept as the tree of calls it receives: *)
(* a kind ("bytes", "str", "tuple", "seq", "struct", ...) and its content.  *)

\* a value of the serde data model
Token(kind, v) == [kind |-> kind, v |-> v]

\* the digits of Base::Base16Lower
HexDigits ==
    <<"0", "1", "2", "3", "4", "5", "6", "7",
      "8", "9", "a", "b", "c", "d", "e", "f">>

\* base16 of a byte string: two digits per byte, high nibble first
hex_encode(b) ==
    [i \in 1..(2 * Len(b)) |->
        IF i % 2 = 1
        THEN HexDigits[(b[(i + 1) \div 2] \div 16) + 1]
        ELSE HexDigits[(b[i \div 2] % 16) + 1]]

\* the value of a base16 digit
HexValue(c) == (CHOOSE i \in DOMAIN HexDigits : HexDigits[i] = c) - 1

\* base16 to bytes: an even number of digits, each a digit of the alphabet
hex_decode(s) ==
    IF Len(s) % 2 = 1 \/ \E i \in DOMAIN s : \A j \in DOMAIN HexDigits : HexDigits[j] # s[i]
    THEN Err(<<"Multibase", s>>)
    ELSE Ok([i \in 1..(Len(s) \div 2) |->
                16 * HexValue(s[2 * i - 1]) + HexValue(s[2 * i])], 0)

\* Varbytes::encoded_new(Base16Lower, v) as the string it serializes to:
\* the base's prefix "f", then base16 of the Varbytes of v
EncodedVarbytes_to_string(v) == <<"f">> \o hex_encode(Varbytes_into(v))

\* EncodedVarbytes read back from a string: the prefix selects the base, the
\* rest is base16 of a Varbytes
EncodedVarbytes_try_from(s) ==
    IF s = <<>> \/ Head(s) # "f" THEN Err(<<"Multibase", s>>)
    ELSE LET b == hex_decode(Tail(s)) IN
         IF ~b.ok THEN b
         ELSE LET v == Varbytes_try_decode_from(b.val, 1) IN
              IF ~v.ok THEN v ELSE Ok(v.val, 0)

\* the name a Codec is serialized under by a human-readable Serializer; a
\* codec's name is kept whole, as one symbol
Codec_as_str(c) == <<c>>

\* a Codec read back from its name
Codec_try_from_str(s) ==
    IF Len(s) = 1 /\ s[1] \in Codecs THEN Ok(s[1], 0)
    ELSE Err(<<"Multicodec", s>>)

\* impl Serialize for AttrId: the name for a human-readable Serializer, else
\* the Varbytes of the code
AttrId_serialize(a, readable) ==
    IF readable THEN Token("str", AttrId_as_str(a))
    ELSE Token("varbytes", AttrId_into(a))

\* the human-readable branch of Serialize for Multisig: a struct of three
\* fields, the message and every attribute value as EncodedVarbytes
Multisig_serialize_readable(m) ==
    Token("struct",
          << <<"codec", Token("str", Codec_as_str(m.codec))>>,
             <<"message", Token("str", EncodedVarbytes_to_string(m.message))>>,
             <<"attributes",
               Token("seq",
                     [i \in DOMAIN m.attributes |->
                         Token("tuple",
                               <<AttrId_serialize(m.attributes[i][1], TRUE),
                                 Token("str", EncodedVarbytes_to_string(m.attributes[i][2]))>>)])>> >>)

\* the other branch of Serialize for Multisig: the tuple (SIGIL, codec,
\* message, attributes), each element serialized by its own impl
Multisig_serialize_compact(m) ==
    Token("tuple",
          <<Token("codec", <<SIGIL>>),
            Token("codec", <<m.codec>>),
            Token("varbytes", m.message),
            Token("seq",
                  [i \in DOMAIN m.attributes |->
                      Token("tuple",
                            <<AttrId_serialize(m.attributes[i][1], FALSE),
                              Token("varbytes", m.attributes[i][2])>>)])>>)

\* impl Serialize for Multisig
Multisig_serialize(m, readable) ==
    IF readable THEN Multisig_serialize_readable(m)
    ELSE Multisig_serialize_compact(m)

\* impl Deserialize for AttrId, from a name (visit_str)
AttrId_deserialize(t) ==
    IF t.kind = "str" THEN AttrId_try_from_str(t.v)
    ELSE Err(<<"invalid type", t.kind>>)

\* one element of Vec<(AttrId, EncodedVarbytes)>
AttrEntry_deserialize(t) ==
    IF t.kind # "tuple" \/ Len(t.v) # 2 THEN Err(<<"invalid type", t.kind>>)
    ELSE LET id == AttrId_deserialize(t.v[1]) IN
         IF ~id.ok THEN id
         ELSE IF t.v[2].kind # "str" THEN Err(<<"invalid type", t.v[2].kind>>)
         ELSE LET v == EncodedVarbytes_try_from(t.v[2].v) IN
              IF ~v.ok THEN v ELSE Ok(<<id.val, v.val>>, 0)

\* map.next_value::<Vec<(AttrId, EncodedVarbytes)>>(): every element is
\* read before any is inserted
AttrVec_deserialize(t) ==
    IF t.kind # "seq" THEN Err(<<"invalid type", t.kind>>)
    ELSE LET read == [i \in DOMAIN t.v |-> AttrEntry_deserialize(t.v[i])] IN
         IF \E i \in DOMAIN read : ~read[i].ok
         THEN read[CHOOSE i \in DOMAIN read :
                      ~read[i].ok /\ \A j \in 1..(i - 1) : read[j].ok]
         ELSE Ok([i \in DOMAIN read |-> read[i].val], 0)

\* the try_for_each of Field::Attributes: a.insert(i, v).is_some() is a
\* duplicate_field error
RECURSIVE InsertAttributes(_, _, _)
InsertAttributes(attr, i, a) ==
    IF i > Len(attr) THEN Ok(a, 0)
    ELSE IF BTreeMap_contains_key(a, attr[i][1])
    THEN Err(<<"duplicate_field", "duplicate attribute id">>)
    ELSE InsertAttributes(
             attr, i + 1, BTreeMap_insert(a, attr[i][1], attr[i][2], AttrIdOrd))

\* the value of one field of the struct, as visit_map reads it
Field_deserialize(key, t) ==
    CASE key = "codec" ->
            IF t.kind = "str" THEN Codec_try_from_str(t.v)
            ELSE Err(<<"invalid type", t.kind>>)
      [] key = "message" ->
            IF t.kind = "str" THEN EncodedVarbytes_try_from(t.v)
            ELSE Err(<<"invalid type", t.kind>>)
      [] key = "attributes" ->
            LET attr == AttrVec_deserialize(t) IN
            IF ~attr.ok THEN attr ELSE InsertAttributes(attr.val, 1, <<>>)
      [] OTHER -> Err(<<"unknown_field", key>>)

\* the fields visit_map collects: each None until its key is seen
NoFields == [codec |-> None, message |-> None, attributes |-> None]

\* the loop of visit_map over the keys, read[i] being what next_value
\* returns for the i-th key: an unknown key, a key seen before and a value
\* that cannot be read end the loop with an error; then the three
\* missing_field checks
RECURSIVE visit_keys(_, _, _, _)
visit_keys(map, read, i, seen) ==
    IF i > Len(map)
    THEN CASE seen.codec = None -> Err(<<"missing_field", "codec">>)
           [] seen.message = None -> Err(<<"missing_field", "message">>)
           [] seen.attributes = None -> Err(<<"missing_field", "attributes">>)
           [] OTHER -> Ok(Multisig(seen.codec[1], seen.message[1], seen.attributes[1]), 0)
    ELSE IF map[i][1] \notin DOMAIN seen THEN Err(<<"unknown_field", map[i][1]>>)
    ELSE IF seen[map[i][1]] # None THEN Err(<<"duplicate_field", map[i][1]>>)
    ELSE IF ~read[i].ok THEN read[i]
    ELSE visit_keys(map, read, i + 1,
                    [seen EXCEPT ![map[i][1]] = Some(read[i].val)])

\* MultisigVisitor::visit_map
visit_map(map) ==
    visit_keys(map,
               [i \in DOMAIN map |-> Field_deserialize(map[i][1], map[i][2])],
               1, NoFields)

\* impl Deserialize for Multisig: a struct for a human-readable
\* Deserializer, else a borrowed byte string given to Multisig::try_from
Multisig_deserialize(t, readable) ==
    IF readable
    THEN IF t.kind = "struct" THEN visit_map(t.v)
         ELSE Err(<<"invalid type", t.kind>>)
    ELSE IF t.kind = "bytes"
         THEN LET m == Multisig_try_decode_from(t.v, 1) IN
              IF ~m.ok THEN Err(<<"custom", m.err>>) ELSE Ok(m.val, 0)
         ELSE Err(<<"invalid type", t.kind>>)

-----------------------------------------------------------------------------
(* The serde client: a Multisig is serialized by a compact or a             *)
(* human-readable Serializer, or its canonical encoding is handed over as   *)
(* one byte string; a human-readable struct may be altered on the way; a    *)
(* Deserializer of the same kind then reads the value back. Each run of the *)
(* client is one such exchange.                                             *)

\* the ways a struct is altered after it was written
Alterations == {"repeated", "respelled", "dropped", "doubled", "garbled"}

\* the struct t, altered: the attribute list repeats its first entry (under
\* the same or a capitalized name, with another value), a field is dropped
\* or doubled, or the message is not base16
altered(t, how) ==
    LET attrs == t.v[3][2].v
        again(name) ==
            Token("tuple", <<Token("str", name),
                             Token("str", EncodedVarbytes_to_string(<<2>>))>>)
    IN CASE how = "repeated" ->
               Token("struct", <<t.v[1], t.v[2],
                   <<"attributes", Token("seq", attrs \o <<again(attrs[1].v[1].v)>>)>> >>)
         [] how = "respelled" ->
               Token("struct", <<t.v[1], t.v[2],
                   <<"attributes", Token("seq", attrs \o <<again(Capitalized(attrs[1].v[1].v))>>)>> >>)
         [] how = "dropped" -> Token("struct", <<t.v[1], t.v[3]>>)
         [] how = "doubled" -> Token("struct", <<t.v[1], t.v[2], t.v[3], t.v[1]>>)
         [] how = "garbled" ->
               Token("struct", <<t.v[1], <<"message", Token("str", <<"f", "0", "g">>)>>, t.v[3]>>)

\* m.serialize(serializer)
Serialize(m, readable) ==
    /\ serde.op = "none"
    /\ ms' = m
    /\ serde' = [op |-> "serialize",
                 readable |-> readable,
                 ser |-> Multisig_serialize(m, readable),
                 de |-> None]
    /\ UNCHANGED <<pc, builder, buf, src, rest, forged, dec, attrVars,
                   thresholdVars, engineVars, views, ssh>>

\* the canonical encoding of m, handed to a compact Deserializer as one
\* byte string
WriteBytes(m) ==
    /\ serde.op = "none"
    /\ ms' = m
    /\ serde' = [op |-> "bytes",
                 readable |-> FALSE,
                 ser |-> Token("bytes", Multisig_into(m)),
                 de |-> None]
    /\ UNCHANGED <<pc, builder, buf, src, rest, forged, dec, attrVars,
                   thresholdVars, engineVars, views, ssh>>

\* a struct is altered before it is read
Alter(how) ==
    /\ serde.op = "serialize" /\ serde.readable /\ serde.de = None
    /\ how \in {"repeated", "respelled"} => ms.attributes # <<>>
    /\ serde' = [serde EXCEPT !.op = how, !.ser = altered(serde.ser, how)]
    /\ UNCHANGED <<codecVars, attrVars, thresholdVars, engineVars, views, ssh>>

\* Multisig::deserialize(deserializer) on the value at hand
Deserialize ==
    /\ serde.op # "none" /\ serde.de = None
    /\ serde' = [serde EXCEPT
                    !.de = Some(Multisig_deserialize(serde.ser, serde.readable))]
    /\ UNCHANGED <<codecVars, attrVars, thresholdVars, engineVars, views, ssh>>

NextSerde ==
    \/ \E m \in ViewedMultisigs : \E readable \in BOOLEAN : Serialize(m, readable)
    \/ \E m \in ViewedMultisigs : WriteBytes(m)
    \/ \E how \in Alterations : Alter(how)
    \/ Deserialize

SpecSerde == Init /\ [][NextSerde]_vars

-----------------------------------------------------------------------------
(* The share-collecting client of ms.rs tests::test_bls_signature_combine:  *)
(* a builder is made, shares are added to it with add_signature_share, and  *)
(* try_build() is called.  Next to the builder the client keeps what the    *)
(* calls ms.threshold_view()?.add_share(share)? return when they are made   *)
(* one at a time, from the Multisig of the builder's codec, message and     *)
(* attributes on, up to the first error.                                    *)

\* a builder with no message, or with a message and its payload encoding
BuilderForms ==
    {[message |-> None, encoding |-> FALSE],
     [message |-> Some(<<1>>), encoding |-> TRUE]}

\* the shares handed to add_signature_share
BuilderShares == {g \in GivenShares : g.kind \in {"plain", "foreign", "combined"}}

\* Builder::new(codec), with_message_bytes(..) and with_payload_encoding(..)
started(codec, form) ==
    IF form.encoding
    THEN with_payload_encoding(
             with_message_bytes(Builder_new(codec), form.message[1]), "Identity")
    ELSE Builder_new(codec)

\* one turn of the loop made by hand: ms.threshold_view()?.add_share(share)
fold_step(m, share) ==
    IF threshold_view(m).ok THEN add_share(m, share) ELSE threshold_view(m)

StartBuilder(codec, form) ==
    /\ call.op = "none"
    /\ builder' = started(codec, form)
    /\ accum' = build(started(codec, form)).val
    /\ call' = [op |-> "new"]
    /\ UNCHANGED <<pc, ms, buf, src, rest, forged, dec, attrVars, thresholdVars,
                   views, formatVars>>

\* builder.add_signature_share(&share); by hand the share is folded into
\* accum unless an earlier one has failed
AddSignatureShare(given) ==
    /\ call.op # "none"
    /\ res.op = "none"
    /\ Len(unwrap_or_default(builder.shares, <<>>)) < MaxShares
    /\ builder' = add_signature_share(builder, share_kind(accum, given.kind, given.id))
    /\ IF call.op = "add_share" /\ ~call.result.ok
       THEN UNCHANGED <<accum, call>>
       ELSE /\ call' = [op |-> "add_share", self |-> accum, kind |-> given.kind,
                        share |-> share_kind(accum, given.kind, given.id),
                        result |-> fold_step(accum,
                                       share_kind(accum, given.kind, given.id))]
            /\ accum' = IF call'.result.ok THEN call'.result.val ELSE accum
    /\ UNCHANGED <<pc, ms, buf, src, rest, forged, dec, attrVars, thresholdVars,
                   views, formatVars>>

\* builder.try_build()
TryBuildShares ==
    /\ call.op # "none"
    /\ res.op = "none"
    /\ res' = [op |-> "try_build", result |-> try_build(builder), calls |-> <<>>]
    /\ UNCHANGED <<split, agg, held, codecVars, attrVars, engineVars, views,
                   formatVars>>

NextBuilder ==
    \/ call.op = "none"
         /\ \E codec \in AggregateCodecs : \E form \in BuilderForms :
               StartBuilder(codec, form)
    \/ call.op # "none" /\ res.op = "none"
         /\ \E given \in BuilderShares : AddSignatureShare(given)
    \/ TryBuildShares

SpecBuilder == Init /\ [][NextBuilder]_vars

-----------------------------------------------------------------------------
(* The SSH conversions: ConvView::to_ssh_signature of each view and         *)
(* Builder::new_from_ssh_signature.  An ssh_key::Signature is an algorithm  *)
(* and the signature bytes; an algorithm is a variant of                    *)
(* ssh_key::Algorithm, Other carrying a name.                               *)

ALGORITHM_NAME == "secp256k1@multisig"

ALGORITHM_NAME_G1 == "bls12_381-g1@multisig"

ALGORITHM_NAME_G1_SHARE == "bls12_381-g1-share@multisig"

ALGORITHM_NAME_G2 == "bls12_381-g2@multisig"

ALGORITHM_NAME_G2_SHARE == "bls12_381-g2-share@multisig"

Ed25519 == [variant |-> "Ed25519", name |-> "ssh-ed25519"]

Other(name) == [variant |-> "Other", name |-> name]

\* ssh_key::Signature::new: an Ed25519 signature has 64 bytes, the bytes of
\* any other algorithm are taken as they are
Signature_new(algorithm, data) ==
    IF algorithm.variant = "Ed25519" /\ Len(data) # 64
    THEN Err(<<"SshSig", "length">>)
    ELSE Ok([algorithm |-> algorithm, data |-> data], 0)

\* to_ssh_signature of the BLS view for a share codec: the threshold
\* attributes and the scheme are read first, the data is the SigShare
share_to_ssh(m, name, sig) ==
    IF ~threshold_attr_view(m).ok THEN threshold_attr_view(m)
    ELSE IF ~threshold(m).ok THEN threshold(m)
    ELSE IF ~limit(m).ok THEN limit(m)
    ELSE IF ~identifier(m).ok THEN identifier(m)
    ELSE IF ~threshold_data(m).ok THEN threshold_data(m)
    ELSE IF ~SchemeTypeId_try_decode_from(threshold_data(m).val, 1).ok
         THEN SchemeTypeId_try_decode_from(threshold_data(m).val, 1)
    ELSE Signature_new(
             Other(name),
             SigShare_into(
                 SigShare(identifier(m).val, threshold(m).val, limit(m).val,
                          SchemeTypeId_try_decode_from(threshold_data(m).val, 1).val,
                          sig)))

\* to_ssh_signature once the view and the signature bytes are at hand
view_to_ssh(m, sig) ==
    CASE m.codec = "EddsaMsig" -> Signature_new(Ed25519, sig)
      [] m.codec = "Es256KMsig" -> Signature_new(Other(ALGORITHM_NAME), sig)
      [] m.codec = "Bls12381G1Msig" -> Signature_new(Other(ALGORITHM_NAME_G1), sig)
      [] m.codec = "Bls12381G2Msig" -> Signature_new(Other(ALGORITHM_NAME_G2), sig)
      [] m.codec = "Bls12381G1ShareMsig" -> share_to_ssh(m, ALGORITHM_NAME_G1_SHARE, sig)
      [] m.codec = "Bls12381G2ShareMsig" -> share_to_ssh(m, ALGORITHM_NAME_G2_SHARE, sig)
      [] OTHER -> Err(<<"UnsupportedAlgorithm", m.codec>>)

\* ms.conv_view()?.to_ssh_signature()
to_ssh_signature(m) ==
    IF ~conv_view(m).ok THEN conv_view(m)
    ELSE IF ~data_view(m).ok THEN data_view(m)
    ELSE IF ~sig_bytes(m).ok THEN sig_bytes(m)
    ELSE view_to_ssh(m, sig_bytes(m).val)

\* bls12381::SigCombined::try_from: the scheme, then the signature as
\* Varbytes
SigCombined_try_from(b) ==
    LET scheme == SchemeTypeId_try_decode_from(b, 1) IN
    IF ~scheme.ok THEN scheme
    ELSE LET sig == Varbytes_try_decode_from(b, scheme.pos) IN
         IF ~sig.ok THEN sig
         ELSE Ok([scheme |-> scheme.val, bytes |-> sig.val], 0)

\* the builder of a signature with one attribute, SigData
from_plain(codec, data) == Ok(with_signature_bytes(Builder_new(codec), data), 0)

\* the builder of a combined BLS signature: Scheme and SigData
from_combined(codec, sig_combined) ==
    IF ~sig_combined.ok THEN sig_combined
    ELSE Ok(with_signature_bytes(
                with_attribute(Builder_new(codec), "Scheme",
                               SchemeTypeId_into(sig_combined.val.scheme)),
                sig_combined.val.bytes), 0)

\* the builder of a BLS signature share: ShareIdentifier, Threshold, Limit,
\* Scheme and SigData
from_share(codec, sig_share) ==
    IF ~sig_share.ok THEN sig_share
    ELSE Ok(with_signature_bytes(
                with_attribute(
                    with_limit(
                        with_threshold(
                            with_identifier(Builder_new(codec),
                                            sig_share.val.identifier),
                            sig_share.val.threshold),
                        sig_share.val.limit),
                    "Scheme", SchemeTypeId_into(sig_share.val.scheme)),
                sig_share.val.bytes), 0)

\* Builder::new_from_ssh_signature
new_from_ssh_signature(sig) ==
    CASE sig.algorithm.variant = "Ed25519" -> from_plain("EddsaMsig", sig.data)
      [] sig.algorithm.variant # "Other" ->
            Err(<<"UnsupportedAlgorithm", sig.algorithm.name>>)
      [] sig.algorithm.name = ALGORITHM_NAME -> from_plain("Es256KMsig", sig.data)
      [] sig.algorithm.name = ALGORITHM_NAME_G1 ->
            from_combined("Bls12381G1Msig", SigCombined_try_from(sig.data))
      [] sig.algorithm.name = ALGORITHM_NAME_G2 ->
            from_combined("Bls12381G2Msig", SigCombined_try_from(sig.data))
      [] sig.algorithm.name = ALGORITHM_NAME_G1_SHARE ->
            from_share("Bls12381G1ShareMsig", SigShare_try_decode_from(sig.data, 1))
      [] sig.algorithm.name = ALGORITHM_NAME_G2_SHARE ->
            from_share("Bls12381G1ShareMsig", SigShare_try_decode_from(sig.data, 1))
      [] OTHER -> Err(<<"UnsupportedAlgorithm", sig.algorithm.name>>)

\* Builder::new_from_ssh_signature(&sig)?.try_build(); the builder holds no
\* shares
multisig_from_ssh(sig) ==
    IF ~new_from_ssh_signature(sig).ok THEN new_from_ssh_signature(sig)
    ELSE build(new_from_ssh_signature(sig).val)

-----------------------------------------------------------------------------
(* The SSH client: a Multisig is converted to an SSH signature and the      *)
(* signature back to a Multisig; or an SSH signature made elsewhere is      *)
(* converted.  Each run of the client is one such exchange.                 *)

\* the signatures converted: those of the view client, the signatures of
\* the tests and the shares of the two groups in both forms
SshMultisigs ==
    ViewedMultisigs
      \cup {build(with_signature_bytes(Builder_new(c), Zeros(64))).val :
               c \in {"EddsaMsig", "Es256KMsig"}}
      \cup {direct_multisig(PlainSplit(g)) : g \in {"G1", "G2"}}
      \cup {share_of(PlainSplit(g), id, "Basic", form) :
               g \in {"G1", "G2"}, id \in 1..MaxIds, form \in {"engine", "builder"}}

\* SSH signatures made elsewhere: every algorithm name of this crate, a name
\* it does not know and an algorithm of ssh_key it does not support, over
\* an empty signature, the 64 zero bytes and an encoded share
SshSignatures ==
    {[algorithm |-> a, data |-> d] :
        a \in {Ed25519, [variant |-> "Rsa", name |-> "ssh-rsa"],
               Other("unknown@multisig")}
              \cup {Other(n) : n \in {ALGORITHM_NAME, ALGORITHM_NAME_G1,
                                      ALGORITHM_NAME_G2, ALGORITHM_NAME_G1_SHARE,
                                      ALGORITHM_NAME_G2_SHARE}},
        d \in {<<>>, Zeros(64),
               SigShare_into(SigShare(1, MaxIds, MaxIds + 1, "Basic",
                                      PointBytes("G2", 1)))}}

\* ms.conv_view()?.to_ssh_signature()
ToSsh(m) ==
    /\ ssh.op = "none"
    /\ ms' = m
    /\ ssh' = [op |-> "to_ssh", sig |-> to_ssh_signature(m), back |-> None]
    /\ UNCHANGED <<pc, builder, buf, src, rest, forged, dec, attrVars,
                   thresholdVars, engineVars, views, serde>>

\* an SSH signature arrives from elsewhere
ReceiveSsh(sig) ==
    /\ ssh.op = "none"
    /\ ssh' = [op |-> "received", sig |-> Ok(sig, 0), back |-> None]
    /\ UNCHANGED <<codecVars, attrVars, thresholdVars, engineVars, views, serde>>

\* Builder::new_from_ssh_signature(&sig)?.try_build() on the signature at
\* hand
FromSsh ==
    /\ ssh.op # "none" /\ ssh.sig.ok /\ ssh.back = None
    /\ ssh' = [ssh EXCEPT !.back = Some(multisig_from_ssh(ssh.sig.val))]
    /\ UNCHANGED <<codecVars, attrVars, thresholdVars, engineVars, views, serde>>

NextSsh ==
    \/ ssh.op = "none" /\ \E m \in SshMultisigs : ToSsh(m)
    \/ ssh.op = "none" /\ \E sig \in SshSignatures : ReceiveSsh(sig)
    \/ FromSsh

SpecSsh == Init /\ [][NextSsh]_vars

-----------------------------------------------------------------------------
(* The holder of an aggregate who is handed the shares of every participant *)
(* of two splits of one key, one among MaxIds + 1 participants and one      *)
(* among MaxIds: each share carries the limit of its own split.             *)

SplitShares ==
    {[kind |-> "plain", id |-> i] : i \in 1..(MaxIds + 1)}
      \cup {[kind |-> "narrow", id |-> i] : i \in 1..MaxIds}

NextSplits ==
    \/ call.op = "none"
         /\ \E codec \in AggregateCodecs : \E form \in AggregateForms :
               NewAggregate(codec, form)
    \/ Settled /\ \E given \in SplitShares : FoldShare(given)
    \/ CombineShares

SpecSplits == Init /\ [][NextSplits]_vars
-----------------------------------------------------------------------------
(* Reference layouts: the bytes of the wire format written out by hand,     *)
(* independent of the encoder above.                                        *)

\* the registry codes as unsigned varints
CodecBytes ==
    [Identity |-> <<0>>,
     Sha2256 |-> <<18>>,
     Multisig |-> <<57>>,
     Es256KMsig |-> <<231, 161, 3>>,
     Bls12381G1Msig |-> <<234, 161, 3>>,
     Bls12381G2Msig |-> <<235, 161, 3>>,
     EddsaMsig |-> <<237, 161, 3>>,
     Bls12381G1ShareMsig |-> <<132, 166, 192, 6>>,
     Bls12381G2ShareMsig |-> <<133, 166, 192, 6>>]

\* the one-byte attribute codes
AttrByte ==
    [SigData |-> 0, PayloadEncoding |-> 1, Scheme |-> 2, Threshold |-> 3,
     Limit |-> 4, ShareIdentifier |-> 5, ThresholdData |-> 6]

\* a length below 2^14 as an unsigned varint
LenBytes(n) == IF n < 128 THEN <<n>> ELSE <<128 + (n % 128), n \div 128>>

\* the entries of a sequence of <<id, value>> pairs, in the order given
RECURSIVE EntriesLayout(_, _)
EntriesLayout(attrs, i) ==
    IF i > Len(attrs) THEN <<>>
    ELSE <<AttrByte[attrs[i][1]]>> \o LenBytes(Len(attrs[i][2])) \o attrs[i][2]
         \o EntriesLayout(attrs, i + 1)

\* sigil, codec, message, attribute count, entries
Layout(m) ==
    <<57>> \o CodecBytes[m.codec] \o LenBytes(Len(m.message)) \o m.message
    \o LenBytes(Len(m.attributes)) \o EntriesLayout(m.attributes, 1)

\* the entries of a set of <<id, value>> pairs by ascending code from c on
RECURSIVE EntriesAscending(_, _)
EntriesAscending(pairs, c) ==
    IF c > 6 THEN <<>>
    ELSE (IF \E q \in pairs : AttrByte[q[1]] = c
          THEN LET q == CHOOSE q \in pairs : AttrByte[q[1]] = c
               IN <<c>> \o LenBytes(Len(q[2])) \o q[2]
          ELSE <<>>)
         \o EntriesAscending(pairs, c + 1)

\* the pairs of a sequence of <<id, value>> pairs
PairsOf(attrs) == {attrs[i] : i \in DOMAIN attrs}

\* the builder given the pairs in the order order[1], order[2], ...
RECURSIVE WithAttributes(_, _, _, _)
WithAttributes(b, pairs, order, i) ==
    IF i > Len(pairs) THEN b
    ELSE WithAttributes(
             with_attribute(b, pairs[order[i]][1], pairs[order[i]][2]),
             pairs, order, i + 1)

\* the bytes of the Multisig built from a codec, a message and the pairs
\* inserted in the given order
EncodedInOrder(codec, message, pairs, order) ==
    Multisig_into(
        try_build(WithAttributes(with_message_bytes(Builder_new(codec), message),
                                 pairs, order, 1)).val)

-----------------------------------------------------------------------------
(* Properties of the codec *)

Encoded == pc \in {"encoded", "decoded"} /\ src = "encoded"

\* C1: decoding the bytes produced by encoding a Multisig (any codec, any
\* message, any attribute map) returns a value equal to that Multisig
C1_RoundTrip ==
    (pc = "decoded" /\ src = "encoded" /\ rest = <<>>)
        => (dec.ok /\ dec.val = ms)

\* a Multisig with a message and two attributes was encoded and decoded
C1_Witness ==
    /\ pc = "decoded" /\ src = "encoded" /\ rest = <<>>
    /\ ms.message # <<>>
    /\ Len(ms.attributes) >= 2
    /\ dec.ok /\ dec.val = ms

\* C2: the bytes of a Multisig do not depend on the order in which its
\* attributes were inserted, and the entries are written by ascending
\* AttrId code
C2_CanonicalForm ==
    pc = "built" =>
        /\ \A order \in Permutations(DOMAIN ms.attributes) :
              EncodedInOrder(ms.codec, ms.message, ms.attributes, order)
                 = Multisig_into(ms)
        /\ Multisig_into(ms)
              = <<57>> \o CodecBytes[ms.codec]
                \o LenBytes(Len(ms.message)) \o ms.message
                \o LenBytes(Cardinality(PairsOf(ms.attributes)))
                \o EntriesAscending(PairsOf(ms.attributes), 0)

\* a Multisig with the attributes of the highest and of the lowest code
C2_Witness ==
    /\ pc = "built"
    /\ Len(ms.attributes) >= 2
    /\ BTreeMap_contains_key(ms.attributes, "ThresholdData")
    /\ BTreeMap_contains_key(ms.attributes, "SigData")
    /\ EncodedInOrder(ms.codec, ms.message,
                      <<ms.attributes[2], ms.attributes[1]>>, <<1, 2>>)
          = Multisig_into(ms)

\* C3: the encoding is sigil, codec, varint length and message, varint
\* attribute count, then per attribute its code byte, varint length and
\* value; the null value is 0x39 0x00 0x00 0x00 and decodes to itself; an
\* Ed25519 Multisig with 64 zero bytes of SigData is sigil, codec bytes,
\* 0x00, 0x01, 0x00, 0x40 and 64 zero bytes
C3_WireLayout ==
    /\ Encoded => buf = Layout(ms) \o rest
    /\ (Encoded /\ ms = Multisig_null) => buf = <<57, 0, 0, 0>> \o rest
    /\ (pc = "decoded" /\ src = "encoded" /\ ms = Multisig_null)
          => (dec.ok /\ dec.val = Multisig_null)
    /\ (Encoded /\ ms = Multisig("EddsaMsig", <<>>, <<<<"SigData", Zeros(64)>>>>))
          => buf = <<57, 237, 161, 3, 0, 1, 0, 64>> \o Zeros(64) \o rest

\* the Ed25519 Multisig of the scenario was encoded and decoded
C3_Witness ==
    /\ pc = "decoded" /\ src = "encoded" /\ rest = <<>>
    /\ ms = Multisig("EddsaMsig", <<>>, <<<<"SigData", Zeros(64)>>>>)
    /\ Len(buf) = 72
    /\ dec.ok /\ dec.val = ms

\* the entries of a forged buffer that belong to its attribute section
InSection(f) == 1..(IF f.count < Len(f.entries) THEN f.count ELSE Len(f.entries))

\* entry j of a forged buffer repeats the id of an earlier entry
Repeats(f, j) == \E i \in 1..(j - 1) : f.entries[i][1] = f.entries[j][1]

\* the first entry of the attribute section that repeats an id
FirstRepeat(f) ==
    CHOOSE j \in InSection(f) :
        Repeats(f, j) /\ \A i \in 1..(j - 1) : ~Repeats(f, i)

\* C4: decoding a buffer whose attribute section has two entries with the
\* same AttrId fails with DuplicateAttribute carrying the code of that
\* AttrId, whatever the values and wherever the repeated entry is
C4_DuplicateRejected ==
    (/\ pc = "decoded" /\ src = "forged"
     /\ forged.lead = <<57>>
     /\ \E j \in InSection(forged) : Repeats(forged, j)
     /\ \A i \in 1..FirstRepeat(forged) : forged.entries[i][1] \in 0..6)
        => (/\ ~dec.ok
            /\ dec.err = <<"DuplicateAttribute",
                           forged.entries[FirstRepeat(forged)][1]>>)

\* the third entry repeats the id of the first with another value
C4_Witness ==
    /\ pc = "decoded" /\ src = "forged"
    /\ forged.lead = <<57>>
    /\ forged.count = 3 /\ Len(forged.entries) = 3
    /\ forged.entries[1][1] = 6
    /\ forged.entries[2][1] = 0
    /\ forged.entries[3][1] = 6
    /\ forged.entries[1][2] # forged.entries[3][2]
    /\ ~dec.ok
    /\ dec.err = <<"DuplicateAttribute", 6>>

\* C5: a buffer that begins with a valid registry code other than the sigil
\* fails with MissingSigil; a buffer with a repeated or an unknown attribute
\* id in its attribute section, or cut short, fails; and a failure carries
\* an error and no Multisig
C5_FailuresRejectInput ==
    pc = "decoded" =>
        /\ (src = "forged"
              /\ \E c \in Codecs \ {SIGIL} : forged.lead = CodecBytes[c])
              => dec = Err(<<"MissingSigil">>)
        /\ (src = "forged"
              /\ \E j \in InSection(forged) :
                    Repeats(forged, j) \/ forged.entries[j][1] \notin 0..6)
              => ~dec.ok
        /\ (src = "forged" /\ forged.count > Len(forged.entries)) => ~dec.ok
        /\ src = "truncated" => ~dec.ok
        /\ ~dec.ok => DOMAIN dec = {"ok", "err"}

\* a buffer that begins with the code of eddsa-msig was decoded
C5_Witness ==
    /\ pc = "decoded" /\ src = "forged"
    /\ forged.lead = <<237, 161, 3>>
    /\ dec = Err(<<"MissingSigil">>)

\* C6: decoding an encoded Multisig followed by other bytes returns the
\* Multisig and exactly those bytes as the remainder
C6_Remainder ==
    (pc = "decoded" /\ src = "encoded")
        => (/\ dec.ok
            /\ dec.val = ms
            /\ From(buf, dec.pos) = rest
            /\ SubSeq(buf, 1, dec.pos - 1) = Multisig_into(ms))

\* a Multisig with an attribute, followed by a byte equal to the sigil
C6_Witness ==
    /\ pc = "decoded" /\ src = "encoded"
    /\ rest = <<57>>
    /\ Len(ms.attributes) >= 1
    /\ dec.ok /\ dec.val = ms
    /\ From(buf, dec.pos) = <<57>>

-----------------------------------------------------------------------------
(* Properties of AttrId *)

\* the variant, if any, whose canonical name is s up to the case of its
\* ASCII letters
NamedUpToCase(s) == {a \in AttrId : ToUpperAscii(AttrId_as_str(a)) = ToUpperAscii(s)}

\* the codes, the names and the variants correspond one to one, and a byte
\* outside 0..6 fails with InvalidAttributeValue carrying it
AttrIdBijection ==
    /\ \A a, b \in AttrId :
          a # b => (AttrId_code(a) # AttrId_code(b)
                    /\ AttrId_as_str(a) # AttrId_as_str(b))
    /\ {AttrId_code(a) : a \in AttrId} = 0..6
    /\ attrIn.kind = "variant" =>
          /\ AttrId_try_from_u8(attrOut.code) = Ok(attrIn.variant, 0)
          /\ AttrId_try_from_str(attrOut.name) = Ok(attrIn.variant, 0)
    /\ (attrIn.kind = "u8" /\ attrIn.code \in 0..6) =>
          (attrOut.ok /\ AttrId_code(attrOut.val) = attrIn.code)
    /\ (attrIn.kind = "u8" /\ attrIn.code \notin 0..6) =>
          attrOut = Err(<<"InvalidAttributeValue", attrIn.code>>)
    /\ (attrIn.kind = "str" /\ attrIn.name \in CanonicalNames) =>
          (attrOut.ok /\ AttrId_as_str(attrOut.val) = attrIn.name)

\* C7 as stated: every name that is not one of the seven canonical names
\* fails with InvalidAttributeName carrying the name
C7_UnknownNameFails ==
    /\ AttrIdBijection
    /\ (attrIn.kind = "str" /\ attrIn.name \notin CanonicalNames) =>
          attrOut = Err(<<"InvalidAttributeName", attrIn.name>>)

\* C7 amended: AttrId, its codes 0..6 and its canonical names correspond one
\* to one; a byte outside 0..6 fails with InvalidAttributeValue; a name is
\* matched without regard to the case of its ASCII letters, and a name that
\* is no canonical name in any case fails with InvalidAttributeName
\* carrying the name as given
C7_NamesMatchedIgnoringCase ==
    /\ AttrIdBijection
    /\ (attrIn.kind = "str" /\ NamedUpToCase(attrIn.name) # {}) =>
          (attrOut.ok /\ attrOut.val \in NamedUpToCase(attrIn.name))
    /\ (attrIn.kind = "str" /\ NamedUpToCase(attrIn.name) = {}) =>
          attrOut = Err(<<"InvalidAttributeName", attrIn.name>>)

\* the name SIG-DATA was given and SigData returned
C7_Witness ==
    /\ attrIn.kind = "str"
    /\ attrIn.name = <<"S", "I", "G", "-", "D", "A", "T", "A">>
    /\ attrOut = Ok("SigData", 0)

-----------------------------------------------------------------------------
(* Properties of the threshold engine *)

\* the shares held are all signed under the scheme of the split
SameScheme == \A h \in held : h.scheme = split.scheme

\* C8 as stated: folding at least t shares of a split into a fresh
\* aggregate of the combined codec and calling combine() yields the Multisig
\* built from the signature made with the un-split key, whichever the
\* shares
C8_ThresholdCorrectness ==
    (/\ res.op = "combine"
     /\ ~split.encoding
     /\ SameScheme
     /\ Cardinality(held) >= split.t)
        => (res.result.ok /\ res.result.val = direct_multisig(split))

\* C9 as stated: with k >= 1 same-scheme shares folded in, combine() fails
\* with NotEnoughShares when k < t and succeeds when k >= t, for the G1 and
\* the G2 combined codec, with or without a payload encoding
C9_EnoughSharesCombine ==
    (/\ res.op = "combine"
     /\ SameScheme
     /\ held # {})
        => IF Cardinality(held) < split.t
           THEN res.result = Err(<<"NotEnoughShares">>)
           ELSE res.result.ok

\* C10: combine() on an aggregate that holds at least threshold shares, two
\* of them of different schemes, fails with ShareTypeMismatch, and
\* Signature::from_shares is not called
C10_SchemeMismatch ==
    (/\ res.op = "combine"
     /\ Cardinality(held) >= split.t
     /\ \E g, h \in held : g.scheme # h.scheme)
        => (res.result = Err(<<"ShareTypeMismatch">>) /\ res.calls = <<>>)

\* three shares are held, the one of the highest identifier of another
\* scheme than the two before it
C10_Witness ==
    /\ res.op = "combine"
    /\ split.t = 3
    /\ held = {[identifier |-> 1, scheme |-> split.scheme],
               [identifier |-> 2, scheme |-> split.scheme],
               [identifier |-> 3, scheme |-> "Basic"]}
    /\ split.scheme # "Basic"
    /\ res.result = Err(<<"ShareTypeMismatch">>)
    /\ res.calls = <<>>


-----------------------------------------------------------------------------
(* The engine: what add_share, shares() and combine() do to an aggregate    *)

\* the last call was an add_share that returned an aggregate
Added == call.op = "add_share" /\ call.result.ok

\* C11: add_share propagates Threshold and Limit from the share only if the
\* aggregate does not carry them: an aggregate that has a Threshold and a
\* Limit keeps its values in the aggregate add_share returns, whatever those
\* of the share are, and an aggregate without them takes those of the share
C11_ThresholdLimitKept ==
    Added =>
       /\ threshold(call.result.val) =
             (IF threshold(call.self).ok THEN threshold(call.self)
              ELSE threshold(call.share))
       /\ limit(call.result.val) =
             (IF limit(call.self).ok THEN limit(call.self)
              ELSE limit(call.share))

\* C12: add_share propagates PayloadEncoding from the share when the
\* aggregate carries none: the aggregate it returns has the PayloadEncoding
\* of the aggregate if there is one, else that of the share if there is one
C12_PayloadEncodingPropagated ==
    Added =>
       payload_encoding(call.result.val) =
          (IF payload_encoding(call.self).ok THEN payload_encoding(call.self)
           ELSE payload_encoding(call.share))

\* the number of shares accumulated in the aggregate m
Count(m) == Len(current_threshold_data(m))

\* the identifiers of the shares accumulated in m
Identifiers(m) ==
    {current_threshold_data(m)[i][1] : i \in DOMAIN current_threshold_data(m)}

\* the entry add_share makes of a share Multisig
EntryOf(share) ==
    SigShare(identifier(share).val, threshold(share).val, limit(share).val,
             SchemeTypeId_try_decode_from(threshold_data(share).val, 1).val,
             sig_bytes(share).val)

\* C13: add_share is an insert-or-overwrite keyed by the identifier of the
\* share: a new identifier makes the count one larger, an identifier already
\* present has its entry replaced by the data of the new share and the count
\* stays; every other entry is kept, adding the same share again returns the
\* same aggregate, and the count never decreases
C13_InsertOrOverwrite ==
    Added =>
       LET id == identifier(call.share).val
           old == current_threshold_data(call.self)
           new == current_threshold_data(call.result.val)
       IN /\ Count(call.result.val) =
                (IF id \in Identifiers(call.self) THEN Count(call.self)
                 ELSE Count(call.self) + 1)
          /\ Count(call.result.val) >= Count(call.self)
          /\ BTreeMap_get(new, id) = Some(EntryOf(call.share))
          /\ \A k \in Identifiers(call.self) \ {id} :
                BTreeMap_get(new, k) = BTreeMap_get(old, k)
          /\ Identifiers(call.result.val) = Identifiers(call.self) \cup {id}
          /\ add_share(call.result.val, call.share) = call.result

\* a share replaces the different one its identifier had, next to the share
\* of another identifier
C13_Witness ==
    /\ Added
    /\ identifier(call.share).val \in Identifiers(call.self)
    /\ BTreeMap_get(current_threshold_data(call.self), identifier(call.share).val)
          # Some(EntryOf(call.share))
    /\ Count(call.self) >= 2

\* the aggregate returned to a writer holds the shares of the aggregate old
\* and the writer's own share, and no other
OwnShareOnly(old, w) ==
    w.result.ok =>
       /\ Identifiers(w.result.val) = Identifiers(old) \cup {identifier(w.share).val}
       /\ BTreeMap_get(current_threshold_data(w.result.val),
                       identifier(w.share).val) = Some(EntryOf(w.share))
       /\ \A k \in Identifiers(old) \ {identifier(w.share).val} :
             BTreeMap_get(current_threshold_data(w.result.val), k) =
                BTreeMap_get(current_threshold_data(old), k)

\* C14: add_share is pure: the aggregate it is called on is unchanged whether
\* it succeeds or fails, a failure returns no aggregate, and two add_share
\* calls on the same aggregate with different shares each return an
\* aggregate with the old shares and only its own share, each what add_share
\* returns for that aggregate and that share alone
C14_AddSharePure ==
    /\ call.op = "fork" =>
          /\ accum = call.self
          /\ OwnShareOnly(call.self, call.first)
          /\ OwnShareOnly(call.self, call.second)
          /\ call.first.result = add_share(call.self, call.first.share)
          /\ call.second.result = add_share(call.self, call.second.share)
    /\ (call.op = "add_share" /\ ~call.result.ok) =>
          /\ accum = call.self
          /\ DOMAIN call.result = {"ok", "err"}
    /\ Added => OwnShareOnly(call.self, call)

\* two holders of an aggregate that has a share add shares of different
\* participants: the first one's is new to the aggregate and is not in the
\* aggregate returned to the second
C14_Witness ==
    /\ call.op = "fork"
    /\ call.first.result.ok
    /\ call.second.result.ok
    /\ Count(call.self) >= 1
    /\ identifier(call.first.share).val # identifier(call.second.share).val
    /\ identifier(call.first.share).val \notin Identifiers(call.self)
    /\ identifier(call.first.share).val \notin Identifiers(call.second.result.val)

\* the Multisig share lists the entry e of the aggregate m: a share-variant
\* Multisig of the group of m, with the message and the payload encoding of
\* m and the identifier, threshold, limit and share bytes of e
ListsEntry(m, share, e) ==
    /\ share.codec = ShareCodec(GroupOf(m.codec))
    /\ share.message = m.message
    /\ payload_encoding(share) = payload_encoding(m)
    /\ identifier(share) = Ok(e.identifier, 0)
    /\ threshold(share) = Ok(e.threshold, 0)
    /\ limit(share) = Ok(e.limit, 0)
    /\ sig_bytes(share) = Ok(e.bytes, 0)

\* shares() returned list for the aggregate m: one share per entry of the
\* ThresholdData of m, in ascending order of the identifiers
ListsAll(m, list) ==
    /\ list.ok
    /\ Len(list.val) = Count(m)
    /\ \A i \in DOMAIN list.val :
          ListsEntry(m, list.val[i], current_threshold_data(m)[i][2])
    /\ \A i, j \in DOMAIN list.val :
          i < j => identifier(list.val[i]).val < identifier(list.val[j]).val

\* C18 as stated: shares() on a combined BLS aggregate returns one
\* share-variant Multisig of the aggregate's group per entry of
\* ThresholdData, in ascending identifier order, each with the aggregate's
\* message and PayloadEncoding and the entry's identifier, threshold, limit
\* and share bytes; an aggregate without ThresholdData yields the empty list
\* and no error
C18_SharesListed ==
    (call.op = "shares" /\ threshold_view(call.self).ok) =>
       /\ ListsAll(call.self, call.result)
       /\ ~threshold_data(call.self).ok => call.result = Ok(<<>>, 0)

\* C18: shares() on a combined BLS aggregate that has a PayloadEncoding, or
\* no share, returns one share-variant Multisig of the aggregate's group per
\* entry of ThresholdData, in ascending identifier order, each with the
\* aggregate's message and PayloadEncoding, the entry's identifier,
\* threshold, limit and share bytes and the entry's scheme as ThresholdData;
\* without ThresholdData the list is empty and there is no error; on an
\* aggregate that has shares and no PayloadEncoding it fails with
\* MissingPayloadEncoding
C18_SharesListedWithEncoding ==
    (call.op = "shares" /\ threshold_view(call.self).ok) =>
       IF payload_encoding(call.self).ok \/ Count(call.self) = 0
       THEN /\ ListsAll(call.self, call.result)
            /\ \A i \in DOMAIN call.result.val :
                  threshold_data(call.result.val[i]) =
                     Ok(SchemeTypeId_into(
                            current_threshold_data(call.self)[i][2].scheme), 0)
            /\ ~threshold_data(call.self).ok => call.result = Ok(<<>>, 0)
       ELSE call.result = Err(<<"MissingPayloadEncoding">>)

\* shares() lists the shares of an aggregate that has a message, a
\* PayloadEncoding and the shares of two participants
C18_Witness ==
    /\ call.op = "shares"
    /\ threshold_view(call.self).ok
    /\ payload_encoding(call.self).ok
    /\ call.self.message # <<>>
    /\ Count(call.self) >= 2
    /\ call.result.ok

\* the step is a combine() that returns a signature
Combines == call'.op = "combine" /\ call'.result.ok

\* the step follows a combine() that returned a signature
Combined == call.op = "combine" /\ call.result.ok

\* a combine() that returns a signature leaves the aggregate its
\* ThresholdData, Threshold and Limit, and one more combine() returns the
\* same Multisig
CombineKeeps ==
    /\ Combines =>
          /\ accum' = accum
          /\ threshold_data(accum') = threshold_data(accum)
          /\ threshold(accum') = threshold(accum)
          /\ limit(accum') = limit(accum)
    /\ (Combined /\ call'.op = "combine") =>
          /\ call'.result = call.result
          /\ accum' = accum

Refused ==
    /\ call.op = "add_share"
    /\ ~call.result.ok
    /\ DOMAIN call.result = {"ok", "err"}
    /\ accum = call.self

CombinedCodecs == {"Bls12381G1Msig", "Bls12381G2Msig"}

\* C16 as stated: add_share fails with IsASignatureShare if the Multisig
\* passed as the share is a combined BLS signature, and with
\* UnsupportedAlgorithm if the codec of the aggregate is not a BLS one; no
\* aggregate is returned
C16_AddShareErrors ==
    call.op = "add_share" =>
       /\ (call.self.codec \in CombinedCodecs /\ call.share.codec \in CombinedCodecs)
             => (Refused /\ call.result = Err(<<"IsASignatureShare">>))
       /\ call.self.codec \notin BlsCodecs
             => (Refused /\ call.result = Err(<<"UnsupportedAlgorithm", call.self.codec>>))

\* C16: add_share fails with IsASignatureShare if the aggregate it is called
\* on is a share-variant Multisig and with UnsupportedAlgorithm if the codec
\* of the aggregate is not a BLS one (threshold_view() refuses both with
\* UnsupportedCodec); a combined BLS signature passed as the share to a
\* combined aggregate fails with MissingThreshold or MissingLimit if it
\* lacks the attribute and else with NotASignatureShare; no aggregate is
\* returned
C16_AddShareRefusals ==
    call.op = "add_share" =>
       /\ call.self.codec \in BlsShareCodecs
             => /\ Refused
                /\ call.result = Err(<<"IsASignatureShare">>)
                /\ threshold_view(call.self) = Err(<<"UnsupportedCodec", call.self.codec>>)
       /\ call.self.codec \notin BlsCodecs
             => /\ Refused
                /\ call.result = Err(<<"UnsupportedAlgorithm", call.self.codec>>)
                /\ threshold_view(call.self) = Err(<<"UnsupportedCodec", call.self.codec>>)
       /\ (call.self.codec \in CombinedCodecs /\ call.share.codec \in CombinedCodecs)
             => /\ Refused
                /\ call.result =
                      (IF ~threshold(call.share).ok THEN Err(<<"MissingThreshold">>)
                       ELSE IF ~limit(call.share).ok THEN Err(<<"MissingLimit">>)
                       ELSE Err(<<"NotASignatureShare">>))

\* an aggregate that has a Threshold and a Limit is passed as the share
C16_Witness ==
    /\ call.op = "add_share"
    /\ call.self.codec \in CombinedCodecs
    /\ call.share.codec \in CombinedCodecs
    /\ threshold(call.share).ok
    /\ call.result = Err(<<"NotASignatureShare">>)

\* C17: add_share accepts only a share-variant Multisig of the curve group of
\* the aggregate: a G2 share added to a G1 aggregate, or a G1 share added to
\* a G2 aggregate, returns an error and the share does not enter the
\* ThresholdData of the aggregate
C17_ForeignShareRefused ==
    (/\ call.op = "add_share"
     /\ call.self.codec \in CombinedCodecs
     /\ call.share.codec \in BlsShareCodecs
     /\ GroupOf(call.share.codec) # GroupOf(call.self.codec))
       => /\ Refused
          /\ \A i \in DOMAIN current_threshold_data(accum) :
                current_threshold_data(accum)[i][2].bytes # sig_bytes(call.share).val

\* the aggregate m passes the share-count check of combine()
Sufficient(m) == threshold(m).ok /\ Count(m) >= threshold(m).val

\* the step is an add_share on the aggregate that returns the next aggregate
Adds == call'.op = "add_share" /\ call'.self = accum /\ call'.result.ok

\* C19: an aggregate that holds at least Threshold shares (Sufficient) stays
\* Sufficient after every further successful add_share; no add_share takes
\* an aggregate from Sufficient back to Partial
C19_StaysSufficient ==
    [][(Sufficient(accum) /\ Adds) => Sufficient(accum')]_vars

-----------------------------------------------------------------------------
(* The dispatch of the views *)

\* Ed25519, secp256k1 and the four BLS12-381 codecs
SignatureCodecs ==
    {"EddsaMsig", "Es256KMsig", "Bls12381G1Msig", "Bls12381G2Msig",
     "Bls12381G1ShareMsig", "Bls12381G2ShareMsig"}

\* the view getter refused the codec
Unsupported(view, codec) == view = Err(<<"UnsupportedCodec", codec>>)

\* C20: attr_view, data_view and conv_view succeed exactly for the Ed25519,
\* secp256k1 and the four BLS codecs and fail with UnsupportedCodec(codec)
\* for every other codec, the identity codec included; threshold_attr_view
\* and threshold_view fail with UnsupportedCodec on Ed25519 and secp256k1,
\* and threshold_view succeeds only for the two combined BLS codecs
C20_ViewDispatch ==
    views.op = "views" =>
       /\ IF ms.codec \in SignatureCodecs
          THEN views.attr_view.ok /\ views.data_view.ok /\ views.conv_view.ok
          ELSE /\ Unsupported(views.attr_view, ms.codec)
               /\ Unsupported(views.data_view, ms.codec)
               /\ Unsupported(views.conv_view, ms.codec)
       /\ ms.codec \in {"EddsaMsig", "Es256KMsig"} =>
             /\ Unsupported(views.threshold_attr_view, ms.codec)
             /\ Unsupported(views.threshold_view, ms.codec)
       /\ IF ms.codec \in {"Bls12381G1Msig", "Bls12381G2Msig"}
          THEN views.threshold_view.ok
          ELSE Unsupported(views.threshold_view, ms.codec)

\* a share Multisig has its attribute views and is refused a threshold view
C20_Witness ==
    /\ views.op = "views"
    /\ ms.codec = "Bls12381G2ShareMsig"
    /\ views.attr_view.ok
    /\ views.threshold_attr_view.ok
    /\ Unsupported(views.threshold_view, ms.codec)

-----------------------------------------------------------------------------
(* The attribute accessors *)

\* the attribute attr is in the attribute map of ms
Has(attr) == BTreeMap_contains_key(ms.attributes, attr)

\* the errors that say an attribute is absent
MissingErrors ==
    {<<"MissingPayloadEncoding">>, <<"MissingSignature">>, <<"MissingThreshold">>,
     <<"MissingLimit">>, <<"MissingIdentifier">>, <<"MissingThresholdData">>}

\* the accessor result r is no error about an absent attribute other than
\* own, and is NotASignatureShare only if own is
OwnErrorOnly(r, own) ==
    r.ok \/ r.err = own \/ r.err \notin MissingErrors \cup {<<"NotASignatureShare">>}

\* C21: every accessor fails with its own Missing error exactly when its
\* attribute is absent and never with the error of another accessor:
\* payload_encoding() MissingPayloadEncoding, sig_bytes() MissingSignature
\* (else it returns the stored bytes), threshold(), limit() and
\* threshold_data() MissingThreshold, MissingLimit and MissingThresholdData;
\* identifier() fails with NotASignatureShare on every codec that is not a
\* share codec, with or without a ShareIdentifier, and with
\* MissingIdentifier on a share codec without the attribute
C21_AccessorErrors ==
    views.op = "attributes" =>
       /\ views.payload_encoding = Err(<<"MissingPayloadEncoding">>)
             <=> ~Has("PayloadEncoding")
       /\ views.sig_bytes = Err(<<"MissingSignature">>) <=> ~Has("SigData")
       /\ Has("SigData") =>
             views.sig_bytes = Ok(BTreeMap_get(ms.attributes, "SigData")[1], 0)
       /\ views.threshold = Err(<<"MissingThreshold">>) <=> ~Has("Threshold")
       /\ views.limit = Err(<<"MissingLimit">>) <=> ~Has("Limit")
       /\ views.threshold_data = Err(<<"MissingThresholdData">>)
             <=> ~Has("ThresholdData")
       /\ Has("ThresholdData") =>
             views.threshold_data =
                Ok(BTreeMap_get(ms.attributes, "ThresholdData")[1], 0)
       /\ views.identifier = Err(<<"NotASignatureShare">>)
             <=> ms.codec \notin {"Bls12381G1ShareMsig", "Bls12381G2ShareMsig"}
       /\ views.identifier = Err(<<"MissingIdentifier">>)
             <=> (/\ ms.codec \in {"Bls12381G1ShareMsig", "Bls12381G2ShareMsig"}
                  /\ ~Has("ShareIdentifier"))
       /\ OwnErrorOnly(views.payload_encoding, <<"MissingPayloadEncoding">>)
       /\ OwnErrorOnly(views.sig_bytes, <<"MissingSignature">>)
       /\ OwnErrorOnly(views.threshold, <<"MissingThreshold">>)
       /\ OwnErrorOnly(views.limit, <<"MissingLimit">>)
       /\ OwnErrorOnly(views.threshold_data, <<"MissingThresholdData">>)
       /\ views.identifier.ok
            \/ views.identifier.err \in {<<"NotASignatureShare">>, <<"MissingIdentifier">>}
            \/ views.identifier.err \notin MissingErrors

\* identifier() is asked of a combined BLS Multisig that has a
\* ShareIdentifier attribute
C21_Witness ==
    /\ views.op = "attributes"
    /\ ms.codec = "Bls12381G1Msig"
    /\ Has("ShareIdentifier")
    /\ views.identifier = Err(<<"NotASignatureShare">>)
    /\ views.sig_bytes = Err(<<"MissingSignature">>)

-----------------------------------------------------------------------------
(* C22: the serde forms of a Multisig *)

\* the value was written by Multisig::serialize
Serialized == serde.op = "serialize"

\* the value at hand was read
Deserialized == serde.de # None

\* the human-readable form reads back as the Multisig that was written, a
\* compact Deserializer reads the canonical encoding given as one byte
\* string, and a struct whose attribute list repeats an AttrId is refused
SerdeReadable ==
    /\ Serialized /\ serde.readable /\ Deserialized =>
          serde.de[1].ok /\ serde.de[1].val = ms
    /\ serde.op = "bytes" /\ Deserialized => serde.de[1].ok /\ serde.de[1].val = ms
    /\ serde.op \in {"repeated", "respelled"} /\ Deserialized =>
          /\ ~serde.de[1].ok
          /\ serde.de[1].err = <<"duplicate_field", "duplicate attribute id">>

\* C22: the compact serde form of a Multisig is a single byte string equal
\* to its canonical binary encoding; deserializing what was serialized
\* returns the original Multisig in the compact and in the human-readable
\* form; the human-readable deserializer refuses an attribute list that
\* repeats an AttrId
C22_SerdeRoundTrip ==
    /\ Serialized /\ ~serde.readable =>
          serde.ser.kind = "bytes" /\ serde.ser.v = Multisig_into(ms)
    /\ Serialized /\ Deserialized => serde.de[1].ok /\ serde.de[1].val = ms
    /\ serde.op \in {"repeated", "respelled"} /\ Deserialized => ~serde.de[1].ok

-----------------------------------------------------------------------------
(* C23: errors inside shares(), add_share() and combine() *)

\* the ThresholdData attribute of m is present and does not decode
DamagedData(m) ==
    /\ threshold_data(m).ok
    /\ ~ThresholdData_try_decode_from(threshold_data(m).val, 1).ok

\* C23: no failure inside shares(), add_share() or combine() is swallowed,
\* but for an absent ThresholdData attribute, which is an empty set of
\* shares: on an aggregate whose ThresholdData attribute is present and does
\* not decode each of the three returns an error
C23_NoErrorSwallowed ==
    call.op \in {"shares", "add_share", "combine"} /\ DamagedData(call.self) =>
        ~call.result.ok

-----------------------------------------------------------------------------
(* C24: Builder::try_build and the shares added to the builder *)

\* try_build() was called on the builder
Built == res.op = "try_build"

\* the calls made by hand came to an error
FoldFailed == call.op = "add_share" /\ ~call.result.ok

\* C24: try_build() of a builder with shares returns what folding add_share
\* over them in the order they were added returns, from the Multisig of the
\* builder's codec, message and attributes on; when the threshold view or
\* an add_share fails it returns that error; with no share it returns the
\* builder's codec, its message (empty if unset) and its attributes
C24_TryBuildFolds ==
    /\ Built /\ builder.shares # None /\ ~FoldFailed =>
          res.result.ok /\ res.result.val = accum
    /\ Built /\ builder.shares # None /\ FoldFailed =>
          ~res.result.ok /\ res.result.err = call.result.err
    /\ Built /\ builder.shares = None =>
          /\ res.result.ok
          /\ res.result.val.codec = builder.codec
          /\ res.result.val.message = unwrap_or_default(builder.message, <<>>)
          /\ res.result.val.attributes = unwrap_or_default(builder.attributes, <<>>)

\* try_build() fails on the second of three shares, after the first was
\* accumulated
C24_Witness ==
    /\ Built
    /\ builder.shares # None
    /\ Len(builder.shares[1]) = MaxShares
    /\ FoldFailed
    /\ Count(accum) = 1
    /\ ~res.result.ok

-----------------------------------------------------------------------------
(* C25: the order of the accumulated shares *)

\* the elements of a set of numbers in ascending order
Ascending(ids) ==
    CHOOSE s \in [1..Cardinality(ids) -> ids] :
        \A i, j \in DOMAIN s : i < j => s[i] < s[j]

\* the entry of the share of participant id signed under scheme
HeldEntry(id, scheme) ==
    SigShare(id, split.t, split.n, scheme,
             sign_share(split.group, Poly(split.t), scheme, id).value)

\* the shares that were accepted, as a list in ascending identifier order
HeldAscending ==
    LET ids == Ascending({h.identifier : h \in held}) IN
    [i \in DOMAIN ids |->
        <<ids[i],
          HeldEntry(ids[i], (CHOOSE h \in held : h.identifier = ids[i]).scheme)>>]

\* the identifiers of the shares of a call of Signature::from_shares
HandedOver(handed) == [i \in DOMAIN handed |-> handed[i].identifier]

\* C25: the ThresholdData of an aggregate is written in ascending
\* identifier order, so that its bytes depend on the shares that were added
\* and not on the order they were added in, and combine() hands the shares
\* to Signature::from_shares in ascending identifier order
C25_AscendingOrder ==
    /\ held # {} =>
          /\ threshold_data(agg).ok
          /\ threshold_data(agg).val = ThresholdData_into(HeldAscending)
    /\ res.op = "combine" =>
          \A c \in DOMAIN res.calls :
             HandedOver(res.calls[c]) = Ascending({h.identifier : h \in held})

\* combine() was called on an aggregate of shares of every participant
C25_Witness ==
    /\ res.op = "combine"
    /\ Cardinality(held) = split.n
    /\ split.n > 2
    /\ Len(res.calls) = 1

-----------------------------------------------------------------------------
(* C26: the codec of a Multisig made from an SSH signature *)

\* the codec that corresponds to an SSH algorithm
CodecOfAlgorithm(algorithm) ==
    CASE algorithm = Ed25519 -> Some("EddsaMsig")
      [] algorithm = Other(ALGORITHM_NAME) -> Some("Es256KMsig")
      [] algorithm = Other(ALGORITHM_NAME_G1) -> Some("Bls12381G1Msig")
      [] algorithm = Other(ALGORITHM_NAME_G2) -> Some("Bls12381G2Msig")
      [] algorithm = Other(ALGORITHM_NAME_G1_SHARE) -> Some("Bls12381G1ShareMsig")
      [] algorithm = Other(ALGORITHM_NAME_G2_SHARE) -> Some("Bls12381G2ShareMsig")
      [] OTHER -> None

\* the signature at hand was converted to a Multisig
ConvertedBack == ssh.op # "none" /\ ssh.back # None

\* C26: new_from_ssh_signature selects the codec that corresponds to the
\* SSH algorithm name, so that a Multisig of a supported codec converted to
\* an SSH signature and back has the codec it had; an unknown algorithm
\* fails with UnsupportedAlgorithm
C26_SshCodec ==
    /\ ConvertedBack /\ ssh.back[1].ok =>
          Some(ssh.back[1].val.codec) = CodecOfAlgorithm(ssh.sig.val.algorithm)
    /\ ConvertedBack /\ ssh.op = "to_ssh" =>
          ssh.back[1].ok /\ ssh.back[1].val.codec = ms.codec
    /\ ConvertedBack /\ CodecOfAlgorithm(ssh.sig.val.algorithm) = None =>
          ~ssh.back[1].ok /\ ssh.back[1].err[1] = "UnsupportedAlgorithm"

-----------------------------------------------------------------------------
(* C27: the accumulated shares and the Limit attribute *)

\* C27: no successful add_share returns an aggregate that holds more shares
\* than its Limit attribute allows: the add_share that would make it so is
\* refused
C27_WithinLimit ==
    call.op = "add_share" /\ call.result.ok =>
       /\ limit(call.result.val).ok
       /\ Count(call.result.val) <= limit(call.result.val).val

-----------------------------------------------------------------------------
(* C28: combine() and the payload encoding, for both curve groups *)

\* the combined Multisig made of the aggregate m: its message, a
\* signature, the scheme, and the payload encoding of m if m has one
CombinedOf(m, combined) ==
    /\ combined.ok
    /\ combined.val.message = m.message
    /\ sig_bytes(combined.val).ok
    /\ BTreeMap_contains_key(combined.val.attributes, "Scheme")
    /\ payload_encoding(combined.val) = payload_encoding(m)

\* the primitive makes a signature of the shares accumulated in m
AcceptedByPrimitive(m) ==
    LET converted == ConvertShares(current_threshold_data(m), 1, <<>>) IN
    converted.ok /\ from_shares(GroupOf(m.codec), converted.val).ok

\* C28: combine() on an aggregate of either curve group that holds at least
\* Threshold shares the primitive accepts succeeds whether or not the aggregate has a
\* PayloadEncoding: the combined Multisig has the message of the aggregate,
\* SigData and Scheme, and a PayloadEncoding exactly when the aggregate has
\* one
C28_CombineEitherGroup ==
    (/\ call.op = "combine"
     /\ call.self.codec \in CombinedCodecs
     /\ Sufficient(call.self)
     /\ AcceptedByPrimitive(call.self))
       => CombinedOf(call.self, call.result)

-----------------------------------------------------------------------------
(* C29: what add_share carries from the aggregate into the one it returns *)

\* the attribute ids of the Multisig m
AttrIdsOf(m) == {m.attributes[i][1] : i \in DOMAIN m.attributes}

-----------------------------------------------------------------------------
(* C30: shares() and add_share on the accumulated shares *)

\* the aggregate made of the shares listed by shares() on the aggregate m:
\* Builder::new(codec) with the message and the payload encoding of m,
\* add_signature_share for each of them in turn, try_build()
refold(m, listed) ==
    try_build([with_payload_encoding(with_message_bytes(Builder_new(m.codec), m.message),
                                     payload_encoding(m).val)
                  EXCEPT !.shares = Some(listed)])

\* the ThresholdData of m is what add_share writes: one or more shares, each
\* identifier once, in ascending order, and no byte after them
AsWritten(m) ==
    /\ threshold_data(m).ok
    /\ Count(m) >= 1
    /\ threshold_data(m).val = ThresholdData_into(current_threshold_data(m))

\* shares() was called on a combined aggregate that has a PayloadEncoding
ListedEncoded ==
    /\ call.op = "shares"
    /\ call.self.codec \in CombinedCodecs
    /\ payload_encoding(call.self).ok

\* C30 as stated: on every combined aggregate with a PayloadEncoding shares()
\* returns Multisigs that add_share accepts, and add_share folded over them
\* into an empty aggregate of the same codec, message and PayloadEncoding
\* gives the ThresholdData bytes of the aggregate
C30_SharesRefoldBytes ==
    ListedEncoded =>
       /\ call.result.ok
       /\ refold(call.self, call.result.val).ok
       /\ threshold_data(refold(call.self, call.result.val).val)
             = threshold_data(call.self)

\* C30: on every combined aggregate with a PayloadEncoding shares() returns
\* Multisigs that add_share accepts, and add_share folded over them into an
\* empty aggregate of the same codec, message and PayloadEncoding gives an
\* aggregate that holds the same shares; its ThresholdData bytes are those
\* of the aggregate if the aggregate's ThresholdData is as add_share writes
\* it
C30_SharesRefold ==
    ListedEncoded =>
       /\ call.result.ok
       /\ refold(call.self, call.result.val).ok
       /\ current_threshold_data(refold(call.self, call.result.val).val)
             = current_threshold_data(call.self)
       /\ AsWritten(call.self) =>
             threshold_data(refold(call.self, call.result.val).val)
                = threshold_data(call.self)

\* shares() listed two or more shares of an aggregate that add_share made
C30_Witness ==
    /\ ListedEncoded
    /\ call.result.ok
    /\ Len(call.result.val) >= 2
    /\ call.after = "add_share"
    /\ AsWritten(call.self)
    /\ threshold_data(refold(call.self, call.result.val).val) = threshold_data(call.self)
=============================================================================
